---- MODULE Spec2Model ----
\* FlexCAN mailbox driver of s32k144evb (src/src/can.rs): the transmit and
\* receive protocol at the granularity of single register accesses, together
\* with the part of the controller that acts on the mailboxes by itself.
EXTENDS Integers, Sequences, FiniteSets, TLC

\* ------------------------------------------------------------------ bounds

\* Largest number of mailboxes handed to Can::init (message_buffer_settings.len()).
MaxMB == 2
\* Number of driver calls (transmit / receive) started in one behaviour.
MaxCalls == 2
\* Number of controller events (an end of transmission, a reception) in one behaviour.
MaxHw == 2

\* Largest number of 16-byte blocks in a buffer handed to encrypt_cbc or
\* decrypt_cbc.
MaxBlocks == 14

\* Largest number of bytes in a message handed to verify_mac.
MaxMessage == 230

\* Number of passes of the polling loop of wdog::reconfigure (5000 in the
\* source).
MaxChecks == 4

\* Largest number of time quanta in a bit the segment calculation is tried on.
MaxTqs == 30

\* ------------------------------------------------------------------ bit fields
\* A 32-bit register value is the set of the positions of its 1 bits.

\* BitField::get_bit
GetBit(w, i) == i \in w

\* BitField::set_bit
SetBit(w, i, b) == IF b THEN w \cup {i} ELSE w \ {i}

\* BitField::get_bits(lo..hi): the half-open range lo..hi-1, shifted down.
RECURSIVE GetBits(_, _, _)
GetBits(w, lo, hi) ==
    IF lo >= hi THEN 0
    ELSE (IF lo \in w THEN 1 ELSE 0) + 2 * GetBits(w, lo + 1, hi)

\* The 1 bits of the number v, its bit 0 put at position pos.
RECURSIVE BitsFrom(_, _)
BitsFrom(v, pos) ==
    IF v = 0 THEN {}
    ELSE (IF v % 2 = 1 THEN {pos} ELSE {}) \cup BitsFrom(v \div 2, pos + 1)

\* BitField::set_bits(lo..hi, v): bits lo..hi-1 replaced by the low bits of v.
SetBits(w, lo, hi, v) ==
    (w \ (lo .. (hi - 1))) \cup (BitsFrom(v, lo) \cap (lo .. (hi - 1)))

\* ------------------------------------------------------------------ codec

TxCode(s) == [dir |-> "Transmit", state |-> s]
RxCode(s, b) == [dir |-> "Receive", state |-> s, busy |-> b]
\* The two patterns From<u8> has no arm for: the conversion panics.
PanicCode == [dir |-> "Panic"]

\* Mutant of Encode: the busy bit of a receive code is left out.
Encode_BusyDropped(code) ==
    IF code.dir = "Receive"
    THEN CASE code.state = "Inactive" -> 0
           [] code.state = "Empty"    -> 4
           [] code.state = "Full"     -> 2
           [] code.state = "Overrun"  -> 6
           [] code.state = "Ranswer"  -> 10
    ELSE CASE code.state = "Inactive"   -> 8
           [] code.state = "Abort"      -> 9
           [] code.state = "DataRemote" -> 12
           [] code.state = "Tanswer"    -> 14

\* impl From<MessageBufferCode> for u8
Encode(code) ==
    IF code.dir = "Receive"
    THEN CASE code.state = "Inactive" -> GetBits(SetBits(SetBit({}, 0, code.busy), 1, 4, 0), 0, 4)
           [] code.state = "Empty"    -> GetBits(SetBits(SetBit({}, 0, code.busy), 1, 4, 2), 0, 4)
           [] code.state = "Full"     -> GetBits(SetBits(SetBit({}, 0, code.busy), 1, 4, 1), 0, 4)
           [] code.state = "Overrun"  -> GetBits(SetBits(SetBit({}, 0, code.busy), 1, 4, 3), 0, 4)
           [] code.state = "Ranswer"  -> GetBits(SetBits(SetBit({}, 0, code.busy), 1, 4, 5), 0, 4)
    ELSE CASE code.state = "Inactive"   -> 8
           [] code.state = "Abort"      -> 9
           [] code.state = "DataRemote" -> 12
           [] code.state = "Tanswer"    -> 14

\* Mutant of Decode: 0b1101 has an arm, one pattern is left to the panic.
Decode_OneReserved(c) ==
    CASE c = 8  -> TxCode("Inactive")
      [] c = 9  -> TxCode("Abort")
      [] c = 12 -> TxCode("DataRemote")
      [] c = 13 -> TxCode("DataRemote")
      [] c = 14 -> TxCode("Tanswer")
      [] c = 0  -> RxCode("Inactive", FALSE)
      [] c = 1  -> RxCode("Inactive", TRUE)
      [] c = 4  -> RxCode("Empty", FALSE)
      [] c = 5  -> RxCode("Empty", TRUE)
      [] c = 2  -> RxCode("Full", FALSE)
      [] c = 3  -> RxCode("Full", TRUE)
      [] c = 6  -> RxCode("Overrun", FALSE)
      [] c = 7  -> RxCode("Overrun", TRUE)
      [] c = 10 -> RxCode("Ranswer", FALSE)
      [] c = 11 -> RxCode("Ranswer", TRUE)
      [] OTHER  -> PanicCode

\* impl From<u8> for MessageBufferCode
Decode(c) ==
    CASE c = 8  -> TxCode("Inactive")
      [] c = 9  -> TxCode("Abort")
      [] c = 12 -> TxCode("DataRemote")
      [] c = 14 -> TxCode("Tanswer")
      [] c = 0  -> RxCode("Inactive", FALSE)
      [] c = 1  -> RxCode("Inactive", TRUE)
      [] c = 4  -> RxCode("Empty", FALSE)
      [] c = 5  -> RxCode("Empty", TRUE)
      [] c = 2  -> RxCode("Full", FALSE)
      [] c = 3  -> RxCode("Full", TRUE)
      [] c = 6  -> RxCode("Overrun", FALSE)
      [] c = 7  -> RxCode("Overrun", TRUE)
      [] c = 10 -> RxCode("Ranswer", FALSE)
      [] c = 11 -> RxCode("Ranswer", TRUE)
      [] OTHER  -> PanicCode

IsBusy(code) == code.dir = "Receive" /\ code.busy

\* The CODE field of a control and status word: bits().get_bits(24..28).
CodeOf(cs) == GetBits(cs, 24, 28)

\* ------------------------------------------------------------------ frames

DataFrame(ext, id, data) == [kind |-> "Data", ext |-> ext, id |-> id, data |-> data]
RemoteFrame(ext, id) == [kind |-> "Remote", ext |-> ext, id |-> id, data |-> << >>]
NoFrame == [kind |-> "None", ext |-> FALSE, id |-> 0, data |-> << >>]

\* MailboxHeader::default_transmit
DefaultTransmit ==
    [error_state_indicator |-> FALSE, code |-> TxCode("Inactive"),
     time_stamp |-> 0, priority |-> 0]

\* MailboxHeader::default_receive
DefaultReceive ==
    [error_state_indicator |-> FALSE, code |-> RxCode("Empty", FALSE),
     time_stamp |-> 0, priority |-> 0]

\* The header Can::transmit hands to write_mailbox.
TransmitHeader == [DefaultTransmit EXCEPT !.code = TxCode("DataRemote")]

\* The frame Can::init writes into every mailbox.
FilterFrame == DataFrame(TRUE, 0, << >>)

\* ------------------------------------------------------------------ mailbox words

\* write_mailbox, step 3: the ID word.
IdWord(header, frame) ==
    IF frame.ext
    THEN SetBits(SetBits({}, 0, 29, frame.id), 29, 32, header.priority)
    ELSE SetBits(SetBits({}, 18, 29, frame.id), 29, 32, header.priority)

\* Mutant of DataWord: byte 0 in the low byte of the word (little-endian).
DataWord_LittleEndian(old, index, byte) ==
    SetBits(old, 8 * (index % 4), 8 * (index % 4) + 8, byte)

\* write_mailbox, step 4: data byte `index` (from 0) put into its data word.
DataWord(old, index, byte) ==
    SetBits(old, 32 - 8 * (1 + (index % 4)), 32 - 8 * (index % 4), byte)

\* write_mailbox, step 4: the data word that holds byte `index`.
DataAddr(start, index) == start + 2 + (index \div 4)

\* write_mailbox: data_length.
DataLength(frame) == IF frame.kind = "Data" THEN Len(frame.data) ELSE 0

\* write_mailbox, step 5: the control and status word.
CsWord(header, frame) ==
    SetBits(
      SetBits(
        SetBit(
          SetBit(
            SetBit(
              SetBits(
                SetBit(
                  SetBit({}, 31, FALSE),
                  29, header.error_state_indicator),
                24, 28, Encode(header.code)),
              22, TRUE),
            21, frame.ext),
          20, frame.kind = "Remote"),
        16, 20, DataLength(frame)),
      0, 15, header.time_stamp)

\* write_mailbox: the codes it refuses to overwrite.
WriteRefused(code) ==
    \/ code = TxCode("DataRemote")
    \/ code = TxCode("Tanswer")
    \/ code.dir = "Receive" /\ code.state \in {"Empty", "Overrun", "Full", "Ranswer"}

\* Mutant of FlagMask: the index is written, not the mask of its bit.
FlagMask_Index(mailbox) == SetBits({}, 0, 32, mailbox)

\* iflag1.write(|w| w.bits(1 << mailbox)): the value written.
FlagMask(mailbox) == {mailbox}

\* IFLAG1 is write-1-to-clear: the register after `value` is written to it.
W1C(reg, value) == reg \ value

\* ------------------------------------------------------------------ inputs

Mailboxes == 0 .. (MaxMB - 1)
RamWords == 0 .. (4 * MaxMB - 1)

\* The callers of the driver: the main program and, where a specification
\* lets it run, an interrupt handler that shares the Can handle.
Procs == {"main", "irq"}

\* Frames handed to Can::transmit.
TxFrames ==
    { DataFrame(FALSE, 291, <<1, 2, 3, 4, 5, 6, 7, 8>>),
      DataFrame(TRUE, 536870911, <<255, 128, 1, 127, 170>>),
      RemoteFrame(FALSE, 2047) }

\* Frames the controller receives from the bus.
BusFrames == { DataFrame(FALSE, 1365, <<222, 173>>) }

\* The header arrays handed to Can::init: one header a mailbox.
HeaderSettings ==
    UNION {[0 .. (len - 1) -> {DefaultTransmit, DefaultReceive}] : len \in 1 .. MaxMB}

\* Message buffer RAM is not cleared by reset: what a word that Can::init does
\* not write holds at first (0xA5A5A5A5, ones and zeros in every byte).
RamFill == {b \in 0 .. 31 : b % 8 \in {0, 2, 5, 7}}

\* ------------------------------------------------------------------ bit timing

\* v as u8
AsU8(v) == v % 256

\* Table 50-26: (pseg2, rjw) for tqs, or the panic of the last branch.
SegmentTable(tqs) ==
    IF tqs >= 8 /\ tqs < 10 THEN [panic |-> FALSE, pseg2 |-> 1, rjw |-> 1]
    ELSE IF tqs >= 10 /\ tqs < 15 THEN [panic |-> FALSE, pseg2 |-> 3, rjw |-> 2]
    ELSE IF tqs >= 15 /\ tqs < 20 THEN [panic |-> FALSE, pseg2 |-> 6, rjw |-> 2]
    ELSE IF tqs >= 20 /\ tqs < 26 THEN [panic |-> FALSE, pseg2 |-> 7, rjw |-> 3]
    ELSE [panic |-> TRUE, pseg2 |-> 0, rjw |-> 0]

\* Mutant of Pseg1: the register value is taken for the segment length.
Pseg1_Length(tqs, pseg2) == (tqs - (pseg2 + 1)) \div 2

\* let pseg1 = ( (tqs - (pseg2 + 1) ) / 2 ) - 1
Pseg1(tqs, pseg2) == ((tqs - (pseg2 + 1)) \div 2) - 1

\* Mutant of Propseg: one time quantum less is taken off.
Propseg_OneMore(tqs, pseg2, pseg1) == tqs - (pseg2 + 1) - (pseg1 + 1) - 1

\* let propseg = tqs - (pseg2 + 1) - (pseg1 + 1) - 2
Propseg(tqs, pseg2, pseg1) == tqs - (pseg2 + 1) - (pseg1 + 1) - 2

NoSegments == [panic |-> FALSE, pseg2 |-> 0, rjw |-> 0, pseg1 |-> 0, propseg |-> 0]

\* The segment values Can::init derives from tqs.
Segments(tqs) ==
    LET t == SegmentTable(tqs)
    IN  IF t.panic
        THEN [NoSegments EXCEPT !.panic = TRUE]
        ELSE [panic |-> FALSE, pseg2 |-> t.pseg2, rjw |-> t.rjw,
              pseg1 |-> Pseg1(tqs, t.pseg2),
              propseg |-> Propseg(tqs, t.pseg2, Pseg1(tqs, t.pseg2))]

\* ------------------------------------------------------------------ registers

\* MCR once Can::init has returned Ok for the settings of examples/can.rs.
McrRunning ==
    [mdis |-> FALSE, frz |-> FALSE, halt |-> FALSE, softrst |-> FALSE,
     lpmack |-> FALSE, frzack |-> FALSE, rfen |-> FALSE, srxdis |-> TRUE,
     irmq |-> FALSE, aen |-> TRUE, dma |-> FALSE]

\* CTRL1 once Can::init has returned Ok for the settings of examples/can.rs
\* (8 MHz oscillator, 1 Mbit/s).
Ctrl1Example ==
    [clksrc |-> FALSE, presdiv |-> 0, pseg1 |-> 2, pseg2 |-> 1, propseg |-> 1,
     rjw |-> 1, lpb |-> FALSE]

\* MCR of a controller that is disabled: in low power mode, as after a reset
\* of the chip.
McrDisabled ==
    [mdis |-> TRUE, frz |-> TRUE, halt |-> TRUE, softrst |-> FALSE,
     lpmack |-> TRUE, frzack |-> FALSE, rfen |-> FALSE, srxdis |-> FALSE,
     irmq |-> FALSE, aen |-> FALSE, dma |-> FALSE]

\* CTRL1 before Can::init has written it.
Ctrl1Reset ==
    [clksrc |-> FALSE, presdiv |-> 0, pseg1 |-> 0, pseg2 |-> 0, propseg |-> 0,
     rjw |-> 0, lpb |-> FALSE]

\* impl From<ClockSource> for bool
ClockSourceBit(cs) == cs = "Peripheral"

\* CanSettings::default(), with the source frequency and the self reception
\* of examples/can.rs.
ExampleSettings ==
    [warning_interrupt |-> FALSE, self_reception |-> FALSE, individual_masking |-> FALSE,
     loopback_mode |-> FALSE, clock_source |-> "Oscilator"]

\* Settings with every choice the other way.
OtherSettings ==
    [warning_interrupt |-> TRUE, self_reception |-> TRUE, individual_masking |-> TRUE,
     loopback_mode |-> TRUE, clock_source |-> "Peripheral"]

\* (source_frequency, can_frequency) handed to Can::init.
FreqPairs ==
    { <<8000000, 1000000>>,      \* examples/can.rs: 8 time quanta
      <<5000000, 1000000>>,      \* the least ratio the checks accept
      <<24000000, 1000000>>,     \* the largest ratio without a prescaler
      <<25000000, 1000000>>,     \* the first ratio with a prescaler
      <<27000000, 1000000>>,
      <<50000000, 1000000>>,
      <<64000000, 10000>>,       \* ratio 6400
      <<8000000, 3000000>>,      \* not divisible
      <<4000000, 1000000>>,      \* ratio 4
      <<0, 1000000>>,            \* CanSettings::default()
      <<900000000, 900000000>>,  \* 5 x can_frequency passes 2^32 - 1
      <<1000000, 0>> }

\* The call of Can::init before it is made.
NoInit ==
    [pc |-> "idle", source |-> 0, can |-> 0, settings |-> ExampleSettings,
     headers |-> << >>, presdiv |-> 0, tqs |-> 0, seg |-> NoSegments, mb |-> 0,
     result |-> "none", panic |-> "none", log |-> << >>,
     before |-> [mcr |-> McrRunning, ctrl1 |-> Ctrl1Example, rxmgmask |-> {},
                 ram |-> << >>, maxmb |-> 0, iflag |-> {}]]

\* ------------------------------------------------------------------ conversions on their own

\* Every value of MessageBufferCode.
Codes ==
    {TxCode(s) : s \in {"Inactive", "Abort", "DataRemote", "Tanswer"}}
        \cup {RxCode(s, b) : s \in {"Inactive", "Empty", "Full", "Overrun", "Ranswer"},
                             b \in BOOLEAN}

\* Every value of the 4-bit CODE field.
Patterns == 0 .. 15

\* The values of tqs the segment calculation is tried on.
TqsInputs == 0 .. MaxTqs

NoConv ==
    [fn |-> "none", pc |-> "idle", code |-> PanicCode, pattern |-> 0,
     code0 |-> PanicCode, pattern0 |-> 0, tqs |-> 0, seg |-> NoSegments]

\* A code to encode and decode again, a pattern to decode and encode again,
\* or a tqs to derive the segments from.
ConvInputs ==
    {[NoConv EXCEPT !.fn = "encode", !.pc = "encode", !.code = c, !.code0 = c] :
        c \in Codes}
      \cup {[NoConv EXCEPT !.fn = "decode", !.pc = "decode", !.pattern = x, !.pattern0 = x] :
              x \in Patterns}
      \cup {[NoConv EXCEPT !.fn = "segments", !.pc = "segments", !.tqs = t] :
              t \in TqsInputs}

\* ------------------------------------------------------------------ the other peripherals

\* The 32-bit words of CSE_PRAM: embedded_ram0 .. embedded_ram31.
PramWords == 0 .. 31

\* What a word of CSE_PRAM may hold before a call: zeros, ones, 0xA5A5A5A5.
PramFills == { {}, 0 .. 31, RamFill }

\* No call of the CSEc driver in progress: the parameter RAM, and the
\* arguments, locals and result of a call.
MAX_PAGES == 7

\* What a 128-bit page of CSE_PRAM holds: nothing of interest, the
\* initialization vector, the expected CMAC, block k of the caller's buffer,
\* or what the CSEc made of block k.
Stale == [kind |-> "stale", block |-> 0]
InitVec == [kind |-> "init_vec", block |-> 0]
Cmac == [kind |-> "cmac", block |-> 0]
In(k) == [kind |-> "in", block |-> k]
Out(k) == [kind |-> "out", block |-> k]

\* No call of the CSEc driver in progress: the parameter RAM (the words of
\* the header page bit by bit, the data pages by what they hold), the flag
\* FSTAT.CCIF, and the arguments, locals, accesses and result of a call.
NoCsec ==
    [fn |-> "none", pc |-> "idle", pram |-> [n \in PramWords |-> {}],
     offset |-> 0, halfword |-> 0, out |-> 0, before |-> {},
     pages |-> [p \in 1 .. MAX_PAGES |-> Stale], ccif |-> TRUE,
     command |-> "none", len |-> 0, buffer |-> << >>, start |-> 0,
     sequence |-> "First", page_offset |-> 0, bytes |-> 0, mac_written |-> FALSE,
     success |-> FALSE, result |-> "none", log |-> << >>]

\* No call of the watchdog driver in progress.
NoWdog ==
    [fn |-> "none", pc |-> "idle", ulk |-> FALSE, rcs |-> TRUE, update |-> TRUE,
     pending |-> FALSE, written |-> {}, unlocked_flag |-> FALSE, tries |-> 0, i |-> 0,
     result |-> "none", log |-> << >>]

\* No clock gate enabled through Pcc.
NoPcc ==
    [fn |-> "none", pc |-> "idle", gate |-> "none", source |-> "None",
     reg |-> [g \in {"portc", "portd", "porte", "lpuart1", "can0"} |->
                 [pr |-> TRUE, cgc |-> FALSE, pcs |-> 0]],
     guards |-> [g \in {"portc", "portd", "porte", "lpuart1", "can0"} |-> 0],
     last |-> [op |-> "none"], prev |-> [op |-> "none"]]

\* ------------------------------------------------------------------ state

VARIABLES
    ram,      \* can.embedded_ram: four words a mailbox
    iflag,    \* can.iflag1
    maxmb,    \* can.mcr.maxmb
    lock,     \* the mailboxes the controller holds locked for the CPU
    call,     \* per caller: the call in progress, its locals and its accesses
    sent,     \* per mailbox: the frame write_mailbox stored there, while intact
    quiet,    \* the mailboxes without a controller event since receive acknowledged them
    ncalls,   \* calls started
    nhw,      \* controller events so far
    mcr,      \* can.mcr, the fields other than MAXMB
    ctrl1,    \* can.ctrl1
    rxmgmask, \* can.rxmgmask
    icall,    \* the call of Can::init: its arguments, locals and accesses
    conv,     \* a conversion or calculation on its own: input, position, output
    csec,     \* the CSEc: parameter RAM and the call in progress
    wdog,     \* the watchdog: its registers and the call in progress
    pcc       \* the clock gates, the guards alive and the call in progress

\* The registers and the call of Can::init.
initvars == <<mcr, ctrl1, rxmgmask, icall>>

\* The peripherals beside the FlexCAN.
peripherals == <<csec, wdog, pcc>>

vars == <<ram, iflag, maxmb, lock, call, sent, quiet, ncalls, nhw, initvars, conv, peripherals>>

\* The other peripherals at rest.
IdlePeripherals ==
    /\ csec = NoCsec
    /\ wdog = NoWdog
    /\ pcc = NoPcc

\* One register access, as kept in a call's log.
Acc(op, reg, idx, val) == [op |-> op, reg |-> reg, idx |-> idx, val |-> val]

IdleCall ==
    [op |-> "none", pc |-> "idle", frame |-> NoFrame, header |-> DefaultTransmit,
     mailbox |-> 0, i |-> 0, active |-> 0, code |-> 0, cs |-> {}, index |-> 0,
     id |-> 0, data |-> << >>, result |-> "none", out |-> NoFrame, log |-> << >>,
     scanned |-> << >>, prevRecv |-> {}, flagQuiet |-> FALSE]

\* The state Can::init leaves: every mailbox inactivated and then written
\* with its header and the filter frame; IFLAG1 clear; MAXMB = len - 1.
InitRam(settings) ==
    [a \in RamWords |->
        CASE (a \div 4) \notin DOMAIN settings -> RamFill
          [] a % 4 = 0 -> CsWord(settings[a \div 4], FilterFrame)
          [] a % 4 = 1 -> IdWord(settings[a \div 4], FilterFrame)
          [] OTHER     -> RamFill]

Init ==
    /\ \E settings \in HeaderSettings :
          /\ ram = InitRam(settings)
          /\ maxmb = Cardinality(DOMAIN settings) - 1
    /\ iflag = {}
    /\ lock = {}
    /\ call = [p \in Procs |-> IdleCall]
    /\ sent = [m \in Mailboxes |-> NoFrame]
    /\ quiet = {}
    /\ ncalls = 0
    /\ nhw = 0
    /\ mcr = McrRunning
    /\ ctrl1 = Ctrl1Example
    /\ rxmgmask = {}
    /\ icall = NoInit
    /\ conv = NoConv
    /\ IdlePeripherals

\* ------------------------------------------------------------------ controller

\* Reading the control and status word of a full receive mailbox locks it.
LockOnRead(l, m, cs) ==
    IF Decode(CodeOf(cs)).dir = "Receive"
          /\ Decode(CodeOf(cs)).state \in {"Full", "Overrun"}
    THEN l \cup {m}
    ELSE l

\* can.timer.read(): unlocks all mailboxes.
LockOnTimer(l) == {}

\* A pending transmission ends: the mailbox returns to Transmit(Inactive) and
\* its interrupt flag is set; nothing else of the mailbox changes.
HwTxComplete(m) ==
    /\ nhw < MaxHw
    /\ m <= maxmb
    /\ Decode(CodeOf(ram[4 * m])) = TxCode("DataRemote")
    /\ ram' = [ram EXCEPT ![4 * m] = SetBits(@, 24, 28, Encode(TxCode("Inactive")))]
    /\ iflag' = iflag \cup {m}
    /\ quiet' = quiet \ {m}
    /\ nhw' = nhw + 1
    /\ UNCHANGED <<maxmb, lock, call, sent, ncalls, initvars, conv, peripherals>>

\* A frame that matches an active receive mailbox starts to move in: the
\* controller marks the mailbox busy. A locked mailbox is left alone.
HwRxBegin(m) ==
    /\ nhw < MaxHw
    /\ m <= maxmb
    /\ m \notin lock
    /\ Decode(CodeOf(ram[4 * m])).dir = "Receive"
    /\ Decode(CodeOf(ram[4 * m])).state \in {"Empty", "Full", "Overrun"}
    /\ ~Decode(CodeOf(ram[4 * m])).busy
    /\ ram' = [ram EXCEPT ![4 * m] = SetBit(@, 24, TRUE)]
    /\ nhw' = nhw + 1
    /\ UNCHANGED <<iflag, maxmb, lock, call, sent, quiet, ncalls, initvars, conv, peripherals>>

\* The words of mailbox m once frame f has moved in.
RECURSIVE StoreData(_, _, _, _)
StoreData(r, start, data, index) ==
    IF index >= Len(data) THEN r
    ELSE StoreData(
            [r EXCEPT ![DataAddr(start, index)] = DataWord(@, index, data[index + 1])],
            start, data, index + 1)

\* The move-in ends: ID, data and control words hold the frame, the code is
\* Full (Overrun when the mailbox was full already), the interrupt flag is set.
HwRxEnd(m, f) ==
    /\ IsBusy(Decode(CodeOf(ram[4 * m])))
    /\ LET was == Decode(CodeOf(ram[4 * m])).state
           now == IF was = "Empty" THEN "Full" ELSE "Overrun"
           hdr == [DefaultReceive EXCEPT !.code = RxCode(now, FALSE)]
           r1  == [ram EXCEPT ![4 * m + 1] = IdWord(hdr, f)]
           r2  == StoreData(r1, 4 * m, f.data, 0)
       IN ram' = [r2 EXCEPT ![4 * m] = CsWord(hdr, f)]
    /\ iflag' = iflag \cup {m}
    /\ sent' = [sent EXCEPT ![m] = NoFrame]
    /\ quiet' = quiet \ {m}
    /\ UNCHANGED <<maxmb, lock, call, ncalls, nhw, initvars, conv, peripherals>>

\* ------------------------------------------------------------------ Can::transmit

CanStart(p) == call[p].pc \in {"idle", "done"} /\ ncalls < MaxCalls

\* What the next call remembers of the one before it.
Fresh(c) ==
    [IdleCall EXCEPT
        !.prevRecv = IF c.op = "receive" /\ c.result = "Frame" THEN {c.mailbox} ELSE {}]

\* Mutant of ActiveMailboxes: the scan stops one mailbox short.
ActiveMailboxes_OneShort(mb) == mb

\* let active_mailboxes = self.0.mcr.read().maxmb().bits() as usize + 1
ActiveMailboxes(mb) == mb + 1

\* for i in 0..active_mailboxes: the step to the next index, or the end of
\* the scan with Err(TransmitError::BufferFull).
ScanNext(c) ==
    IF c.i + 1 < c.active
    THEN [c EXCEPT !.i = c.i + 1, !.pc = "t_code"]
    ELSE [c EXCEPT !.pc = "done", !.result = "BufferFull"]

\* The call of Can::transmit(frame).
TransmitCall(p, f) ==
    /\ CanStart(p)
    /\ call' = [call EXCEPT ![p] =
          [Fresh(@) EXCEPT !.op = "transmit", !.pc = "t_maxmb", !.frame = f,
                           !.header = TransmitHeader]]
    /\ ncalls' = ncalls + 1
    /\ UNCHANGED <<ram, iflag, maxmb, lock, sent, quiet, nhw, initvars, conv, peripherals>>

\* The read of MCR.MAXMB and the entry of the scan loop.
TransmitReadMaxmb(p) ==
    /\ call[p].pc = "t_maxmb"
    /\ LET c == [call[p] EXCEPT !.active = ActiveMailboxes(maxmb),
                                !.log = Append(@, Acc("r", "MCR", 0, {}))]
       IN call' = [call EXCEPT ![p] =
             IF 0 < c.active THEN [c EXCEPT !.i = 0, !.pc = "t_code"]
             ELSE [c EXCEPT !.pc = "done", !.result = "BufferFull"]]
    /\ UNCHANGED <<ram, iflag, maxmb, lock, sent, quiet, ncalls, nhw, initvars, conv, peripherals>>

\* read_mailbox_code: the read of the control word and the decoding of its code.
ReadMailboxCode(p) ==
    /\ call[p].pc = "t_code"
    /\ LET a  == call[p].i * 4
           cs == ram[a]
           c  == [call[p] EXCEPT !.code = CodeOf(cs),
                                 !.log = Append(@, Acc("r", "RAM", a, cs))]
       IN /\ call' = [call EXCEPT ![p] =
                IF Decode(CodeOf(cs)) = PanicCode
                THEN [c EXCEPT !.pc = "panicked", !.result = "Panic"]
                ELSE [c EXCEPT !.pc = "t_timer"]]
          /\ lock' = LockOnRead(lock, call[p].i, cs)
    /\ UNCHANGED <<ram, iflag, maxmb, sent, quiet, ncalls, nhw, initvars, conv, peripherals>>

\* read_mailbox_code: the read of the timer; then the test of the code in
\* Can::transmit.
ReadMailboxCodeTimer(p) ==
    /\ call[p].pc = "t_timer"
    /\ LET c == [call[p] EXCEPT !.scanned = Append(@, [i |-> call[p].i, code |-> Decode(call[p].code)]),
                                !.log = Append(@, Acc("r", "TIMER", 0, {}))]
       IN call' = [call EXCEPT ![p] =
             IF Decode(c.code) = TxCode("Inactive")
             THEN [c EXCEPT !.mailbox = c.i, !.pc = "w_check"]
             ELSE ScanNext(c)]
    /\ lock' = LockOnTimer(lock)
    /\ UNCHANGED <<ram, iflag, maxmb, sent, quiet, ncalls, nhw, initvars, conv, peripherals>>

\* ------------------------------------------------------------------ write_mailbox

\* The read of the current code and the check that the mailbox may be written.
WriteMailboxCheck(p) ==
    /\ call[p].pc = "w_check"
    /\ LET a  == call[p].mailbox * 4
           cs == ram[a]
           c  == [call[p] EXCEPT !.log = Append(@, Acc("r", "RAM", a, cs))]
       IN /\ call' = [call EXCEPT ![p] =
                IF Decode(CodeOf(cs)) = PanicCode
                THEN [c EXCEPT !.pc = "panicked", !.result = "Panic"]
                ELSE IF WriteRefused(Decode(CodeOf(cs)))
                THEN ScanNext(c)
                ELSE [c EXCEPT !.pc = "w_iflag"]]
          /\ lock' = LockOnRead(lock, call[p].mailbox, cs)
    /\ UNCHANGED <<ram, iflag, maxmb, sent, quiet, ncalls, nhw, initvars, conv, peripherals>>

\* can.iflag1.write(|w| w.bits(1 << mailbox))
WriteMailboxClearFlag(p) ==
    /\ call[p].pc = "w_iflag"
    /\ iflag' = W1C(iflag, FlagMask(call[p].mailbox))
    /\ call' = [call EXCEPT ![p] =
          [@ EXCEPT !.pc = "w_id",
                    !.log = Append(@, Acc("w", "IFLAG1", 0, FlagMask(call[p].mailbox)))]]
    /\ UNCHANGED <<ram, maxmb, lock, sent, quiet, ncalls, nhw, initvars, conv, peripherals>>

\* Mutant of WriteMailboxId: the control word is written together with the ID
\* word, before the data bytes.
WriteMailboxId_ArmsEarly(p) ==
    /\ call[p].pc = "w_id"
    /\ LET a == call[p].mailbox * 4 + 1
           w == IdWord(call[p].header, call[p].frame)
           cs == CsWord(call[p].header, call[p].frame)
       IN /\ ram' = [ram EXCEPT ![a] = w, ![a - 1] = cs]
          /\ call' = [call EXCEPT ![p] =
                [@ EXCEPT !.index = 0,
                          !.pc = IF DataLength(call[p].frame) > 0 THEN "w_data" ELSE "w_cs",
                          !.log = @ \o <<Acc("w", "RAM", a - 1, cs),
                                         Acc("r", "RAM", a, ram[a]), Acc("w", "RAM", a, w)>>]]
    /\ sent' = [sent EXCEPT ![call[p].mailbox] = NoFrame]
    /\ UNCHANGED <<iflag, maxmb, lock, quiet, ncalls, nhw, initvars, conv, peripherals>>

\* The modify of the ID word.
WriteMailboxId(p) ==
    /\ call[p].pc = "w_id"
    /\ LET a == call[p].mailbox * 4 + 1
           w == IdWord(call[p].header, call[p].frame)
       IN /\ ram' = [ram EXCEPT ![a] = w]
          /\ call' = [call EXCEPT ![p] =
                [@ EXCEPT !.index = 0,
                          !.pc = IF DataLength(call[p].frame) > 0 THEN "w_data" ELSE "w_cs",
                          !.log = @ \o <<Acc("r", "RAM", a, ram[a]), Acc("w", "RAM", a, w)>>]]
    /\ sent' = [sent EXCEPT ![call[p].mailbox] = NoFrame]
    /\ UNCHANGED <<iflag, maxmb, lock, quiet, ncalls, nhw, initvars, conv, peripherals>>

\* The modify of a data word that stores data byte `index`.
WriteMailboxData(p) ==
    /\ call[p].pc = "w_data"
    /\ LET index == call[p].index
           a == DataAddr(call[p].mailbox * 4, index)
           w == DataWord(ram[a], index, call[p].frame.data[index + 1])
       IN /\ ram' = [ram EXCEPT ![a] = w]
          /\ call' = [call EXCEPT ![p] =
                [@ EXCEPT !.index = index + 1,
                          !.pc = IF index + 1 < DataLength(call[p].frame)
                                 THEN "w_data" ELSE "w_cs",
                          !.log = @ \o <<Acc("r", "RAM", a, ram[a]), Acc("w", "RAM", a, w)>>]]
    /\ UNCHANGED <<iflag, maxmb, lock, sent, quiet, ncalls, nhw, initvars, conv, peripherals>>

\* The write of the control and status word; write_mailbox returns Ok(()) and
\* so does Can::transmit.
WriteMailboxCs(p) ==
    /\ call[p].pc = "w_cs"
    /\ LET a == call[p].mailbox * 4
           w == CsWord(call[p].header, call[p].frame)
       IN /\ ram' = [ram EXCEPT ![a] = w]
          /\ call' = [call EXCEPT ![p] =
                [@ EXCEPT !.pc = "done", !.result = "Ok",
                          !.log = Append(@, Acc("w", "RAM", a, w))]]
    /\ sent' = [sent EXCEPT ![call[p].mailbox] = call[p].frame]
    /\ UNCHANGED <<iflag, maxmb, lock, quiet, ncalls, nhw, initvars, conv, peripherals>>

\* ------------------------------------------------------------------ Can::receive

\* The call of Can::receive(mailbox), for a mailbox that Can::init configured.
ReceiveCall(p, m) ==
    /\ CanStart(p)
    /\ m <= maxmb
    /\ call' = [call EXCEPT ![p] =
          [Fresh(@) EXCEPT !.op = "receive", !.pc = "r_iflag", !.mailbox = m]]
    /\ ncalls' = ncalls + 1
    /\ UNCHANGED <<ram, iflag, maxmb, lock, sent, quiet, nhw, initvars, conv, peripherals>>

\* Mutant of ReceiveFlag: the flag is read and the mailbox is read whatever it says.
ReceiveFlag_NoCheck(p) ==
    /\ call[p].pc = "r_iflag"
    /\ call' = [call EXCEPT ![p] =
          [@ EXCEPT !.flagQuiet = call[p].mailbox \in quiet, !.pc = "r_cs",
                    !.log = Append(@, Acc("r", "IFLAG1", 0, iflag))]]
    /\ UNCHANGED <<ram, iflag, maxmb, lock, sent, quiet, ncalls, nhw, initvars, conv, peripherals>>

\* let new_message = self.0.iflag1.read().bits().get_bit(mailbox as u8)
ReceiveFlag(p) ==
    /\ call[p].pc = "r_iflag"
    /\ LET c == [call[p] EXCEPT !.flagQuiet = call[p].mailbox \in quiet,
                                !.log = Append(@, Acc("r", "IFLAG1", 0, iflag))]
       IN call' = [call EXCEPT ![p] =
             IF ~GetBit(iflag, c.mailbox)
             THEN [c EXCEPT !.pc = "done", !.result = "MailboxEmpty"]
             ELSE [c EXCEPT !.pc = "r_cs"]]
    /\ UNCHANGED <<ram, iflag, maxmb, lock, sent, quiet, ncalls, nhw, initvars, conv, peripherals>>

\* ------------------------------------------------------------------ read_mailbox

\* cs.get_bits(16..20)
Dlc(cs) == GetBits(cs, 16, 20)

\* Mutant of AfterCs: the control word is taken as read, busy or not.
AfterCs_NoWait(cs) ==
    IF Decode(CodeOf(cs)) = PanicCode THEN "panicked" ELSE "r_id"

\* Step 2, the loop head: where read_mailbox goes with the control word `cs`.
AfterCs(cs) ==
    IF Decode(CodeOf(cs)) = PanicCode THEN "panicked"
    ELSE IF IsBusy(Decode(CodeOf(cs))) THEN "r_busy"
    ELSE "r_id"

\* A log with one more access; a re-read that repeats the access before it
\* (the busy loop spinning on an unchanged word) is kept once.
Logged(log, acc) ==
    IF Len(log) > 0 /\ log[Len(log)] = acc THEN log ELSE Append(log, acc)

\* The control word taken into `cs`, by step 1 or by a re-read of step 2.
TakeCs(p) ==
    LET a  == call[p].mailbox * 4
        cs == ram[a]
    IN /\ call' = [call EXCEPT ![p] =
             [@ EXCEPT !.cs = cs, !.pc = AfterCs(cs),
                       !.result = IF AfterCs(cs) = "panicked" THEN "Panic" ELSE @,
                       !.log = Logged(@, Acc("r", "RAM", a, cs))]]
       /\ lock' = LockOnRead(lock, call[p].mailbox, cs)
       /\ UNCHANGED <<ram, iflag, maxmb, sent, quiet, ncalls, nhw, initvars, conv, peripherals>>

\* Step 1: read the control and status word.
ReadMailboxCs(p) == call[p].pc = "r_cs" /\ TakeCs(p)

\* Step 2: the mailbox was busy, read the control and status word again.
ReadMailboxBusy(p) == call[p].pc = "r_busy" /\ TakeCs(p)

\* Step 3: the read of the ID word; the frame is made with its identifier
\* (a data frame longer than the eight bytes of its array is a panic).
ReadMailboxId(p) ==
    LET
        \* read_mailbox, step 3: the identifier taken from the ID word.
        ReadId(cs, idword) ==
            IF GetBit(cs, 21) THEN GetBits(idword, 0, 28) ELSE GetBits(idword, 18, 28)
    IN
    /\ call[p].pc = "r_id"
    /\ LET a  == call[p].mailbox * 4 + 1
           cs == call[p].cs
           c  == [call[p] EXCEPT !.id = ReadId(cs, ram[a]), !.index = 0, !.data = << >>,
                                 !.log = Append(@, Acc("r", "RAM", a, ram[a]))]
       IN call' = [call EXCEPT ![p] =
             IF GetBit(cs, 20) THEN [c EXCEPT !.pc = "r_prio"]
             ELSE IF Dlc(cs) > 8 THEN [c EXCEPT !.pc = "panicked", !.result = "Panic"]
             ELSE IF Dlc(cs) = 0 THEN [c EXCEPT !.pc = "r_prio"]
             ELSE [c EXCEPT !.pc = "r_data"]]
    /\ UNCHANGED <<ram, iflag, maxmb, lock, sent, quiet, ncalls, nhw, initvars, conv, peripherals>>

\* Step 3: the read of the data word that holds byte i.
ReadMailboxData(p) ==
    LET
        \* read_mailbox, step 3: one payload byte taken from its data word.
        ReadByte(word, i) == GetBits(word, 32 - 8 * (1 + (i % 4)), 32 - 8 * (i % 4))
    IN
    /\ call[p].pc = "r_data"
    /\ LET i == call[p].index
           a == call[p].mailbox * 4 + 2 + (i \div 4)
       IN call' = [call EXCEPT ![p] =
             [@ EXCEPT !.data = Append(@, ReadByte(ram[a], i)),
                       !.index = i + 1,
                       !.pc = IF i + 1 < Dlc(call[p].cs) THEN "r_data" ELSE "r_prio",
                       !.log = Append(@, Acc("r", "RAM", a, ram[a]))]]
    /\ UNCHANGED <<ram, iflag, maxmb, lock, sent, quiet, ncalls, nhw, initvars, conv, peripherals>>

\* The read of the ID word for the priority of the header.
ReadMailboxPriority(p) ==
    /\ call[p].pc = "r_prio"
    /\ LET a == call[p].mailbox * 4 + 1
       IN call' = [call EXCEPT ![p] =
             [@ EXCEPT !.pc = "r_ack",
                       !.log = Append(@, Acc("r", "RAM", a, ram[a]))]]
    /\ UNCHANGED <<ram, iflag, maxmb, lock, sent, quiet, ncalls, nhw, initvars, conv, peripherals>>

\* Mutant of ReadMailboxAck: the bit is set by a read-modify-write, which
\* hands every pending flag back to the register and so clears them all.
ReadMailboxAck_Modify(p) ==
    /\ call[p].pc = "r_ack"
    /\ iflag' = W1C(iflag, iflag \cup FlagMask(call[p].mailbox))
    /\ call' = [call EXCEPT ![p] =
          [@ EXCEPT !.pc = "r_timer",
                    !.log = @ \o <<Acc("r", "IFLAG1", 0, iflag),
                                   Acc("w", "IFLAG1", 0, iflag \cup FlagMask(call[p].mailbox))>>]]
    /\ quiet' = quiet \cup {call[p].mailbox}
    /\ UNCHANGED <<ram, maxmb, lock, sent, ncalls, nhw, initvars, conv, peripherals>>

\* Step 4: can.iflag1.write(|w| w.bits(1 << mailbox))
ReadMailboxAck(p) ==
    /\ call[p].pc = "r_ack"
    /\ iflag' = W1C(iflag, FlagMask(call[p].mailbox))
    /\ call' = [call EXCEPT ![p] =
          [@ EXCEPT !.pc = "r_timer",
                    !.log = Append(@, Acc("w", "IFLAG1", 0, FlagMask(call[p].mailbox)))]]
    /\ quiet' = quiet \cup {call[p].mailbox}
    /\ UNCHANGED <<ram, maxmb, lock, sent, ncalls, nhw, initvars, conv, peripherals>>

\* The frame read_mailbox returns.
FrameOf(cs, id, data) ==
    IF GetBit(cs, 20) THEN RemoteFrame(GetBit(cs, 21), id)
    ELSE DataFrame(GetBit(cs, 21), id, data)

\* Mutant of ReadMailboxTimer: read_mailbox returns without the read of the timer.
ReadMailboxTimer_NoRead(p) ==
    /\ call[p].pc = "r_timer"
    /\ call' = [call EXCEPT ![p] =
          [@ EXCEPT !.pc = "done", !.result = "Frame",
                    !.out = FrameOf(call[p].cs, call[p].id, call[p].data)]]
    /\ UNCHANGED <<ram, iflag, maxmb, lock, sent, quiet, ncalls, nhw, initvars, conv, peripherals>>

\* Step 6: the read of the timer; read_mailbox returns and Can::receive
\* returns Ok(frame).
ReadMailboxTimer(p) ==
    /\ call[p].pc = "r_timer"
    /\ lock' = LockOnTimer(lock)
    /\ call' = [call EXCEPT ![p] =
          [@ EXCEPT !.pc = "done", !.result = "Frame",
                    !.out = FrameOf(call[p].cs, call[p].id, call[p].data),
                    !.log = Append(@, Acc("r", "TIMER", 0, {}))]]
    /\ UNCHANGED <<ram, iflag, maxmb, sent, quiet, ncalls, nhw, initvars, conv, peripherals>>

\* ------------------------------------------------------------------ specification

\* One step of a call of caller p.
Step(p) ==
    \/ \E f \in TxFrames : TransmitCall(p, f)
    \/ TransmitReadMaxmb(p)
    \/ ReadMailboxCode(p)
    \/ ReadMailboxCodeTimer(p)
    \/ WriteMailboxCheck(p)
    \/ WriteMailboxClearFlag(p)
    \/ WriteMailboxId(p)
    \/ WriteMailboxData(p)
    \/ WriteMailboxCs(p)
    \/ \E m \in Mailboxes : ReceiveCall(p, m)
    \/ ReceiveFlag(p)
    \/ ReadMailboxCs(p)
    \/ ReadMailboxBusy(p)
    \/ ReadMailboxId(p)
    \/ ReadMailboxData(p)
    \/ ReadMailboxPriority(p)
    \/ ReadMailboxAck(p)
    \/ ReadMailboxTimer(p)

\* A step of the controller.
Hw ==
    \/ \E m \in Mailboxes : HwTxComplete(m)
    \/ \E m \in Mailboxes : HwRxBegin(m)
    \/ \E m \in Mailboxes : \E f \in BusFrames : HwRxEnd(m, f)

\* The driver with a single caller, beside the controller.
Next == Step("main") \/ Hw

Spec == Init /\ [][Next]_vars

\* The driver with a caller that keeps running, beside a controller that is
\* free to leave a mailbox as it is: a busy mailbox may stay busy.
CallerLiveSpec == Init /\ [][Next]_vars /\ WF_vars(Step("main"))

\* ------------------------------------------------------------------ a received frame of any DLC

\* The values of the 4-bit DLC field of a control word.
DlcValues == 0 .. 15

\* The words of mailbox 0 after the controller has stored StoredFrame with
\* the DLC field at d: a frame on the bus may carry any DLC, and one above 8
\* stands for eight data bytes.
StoredMailbox(r, d) ==
    LET
        \* A frame of eight data bytes, as the controller has stored it.
        StoredFrame == DataFrame(FALSE, 1365, <<17, 34, 51, 68, 85, 102, 119, 136>>)
    IN
    LET hdr == [DefaultReceive EXCEPT !.code = RxCode("Full", FALSE)]
        r1  == [r EXCEPT ![1] = IdWord(hdr, StoredFrame)]
        r2  == StoreData(r1, 0, StoredFrame.data, 0)
    IN [r2 EXCEPT ![0] = SetBits(CsWord(hdr, StoredFrame), 16, 20, d)]

\* Mailbox 0 configured for reception and mailbox 1 for transmission by
\* Can::init; then a frame has arrived in mailbox 0.
DlcInit ==
    /\ \E d \in DlcValues :
          ram = StoredMailbox(
                   InitRam([i \in 0 .. 1 |-> IF i = 0 THEN DefaultReceive
                                                      ELSE DefaultTransmit]), d)
    /\ maxmb = 1
    /\ iflag = {0}
    /\ lock = {}
    /\ call = [p \in Procs |-> IdleCall]
    /\ sent = [m \in Mailboxes |-> NoFrame]
    /\ quiet = {}
    /\ ncalls = 0
    /\ nhw = 0
    /\ mcr = McrRunning
    /\ ctrl1 = Ctrl1Example
    /\ rxmgmask = {}
    /\ icall = NoInit
    /\ conv = NoConv
    /\ IdlePeripherals

\* The driver with a single caller, beside the controller, from the arrival
\* of a frame with any DLC.
DlcSpec == DlcInit /\ [][Next]_vars

\* ------------------------------------------------------------------ two callers

\* The main program takes a step: the handler, once entered, runs to its end
\* first.
MainStep == call["irq"].pc \in {"idle", "done"} /\ Step("main")

\* The interrupt handler takes a step, wherever the main program is: between
\* any two of its register accesses.
IrqStep == call["main"].pc # "panicked" /\ Step("irq")

ConcNext == MainStep \/ IrqStep \/ Hw

\* The driver called by the main program and by an interrupt handler that
\* preempts it, beside the controller.
ConcSpec == Init /\ [][ConcNext]_vars

\* ------------------------------------------------------------------ abort_mailbox

\* The call of abort_mailbox(can, mailbox).
AbortCall(p, m) ==
    /\ CanStart(p)
    /\ call' = [call EXCEPT ![p] =
          [Fresh(@) EXCEPT !.op = "abort", !.pc = "a_code", !.mailbox = m]]
    /\ ncalls' = ncalls + 1
    /\ UNCHANGED <<ram, iflag, maxmb, lock, sent, quiet, nhw, initvars, conv, peripherals>>

\* The read of the control word and the comparison of its code with
\* Transmit(DataRemote); the decoding panics on a reserved pattern.
AbortReadCode(p) ==
    /\ call[p].pc = "a_code"
    /\ LET a  == call[p].mailbox * 4
           cs == ram[a]
           c  == [call[p] EXCEPT !.cs = cs, !.code = CodeOf(cs),
                                 !.log = Append(@, Acc("r", "RAM", a, cs))]
       IN /\ call' = [call EXCEPT ![p] =
                IF Decode(CodeOf(cs)) = PanicCode
                THEN [c EXCEPT !.pc = "panicked", !.result = "Panic"]
                ELSE IF Decode(CodeOf(cs)) = TxCode("DataRemote")
                THEN [c EXCEPT !.pc = "a_iflag"]
                ELSE [c EXCEPT !.pc = "done", !.result = "None"]]
          /\ lock' = LockOnRead(lock, call[p].mailbox, cs)
    /\ UNCHANGED <<ram, iflag, maxmb, sent, quiet, ncalls, nhw, initvars, conv, peripherals>>

\* can.iflag1.write(|w| w.bits(1 << mailbox))
AbortClearFlag(p) ==
    /\ call[p].pc = "a_iflag"
    /\ iflag' = W1C(iflag, FlagMask(call[p].mailbox))
    /\ call' = [call EXCEPT ![p] =
          [@ EXCEPT !.pc = "a_write",
                    !.log = Append(@, Acc("w", "IFLAG1", 0, FlagMask(call[p].mailbox)))]]
    /\ UNCHANGED <<ram, maxmb, lock, sent, quiet, ncalls, nhw, initvars, conv, peripherals>>

\* The control word written by abort_mailbox: the code Transmit(Abort) in a
\* word of zeros.
AbortWord == SetBits({}, 24, 28, Encode(TxCode("Abort")))

\* can.embedded_ram[start_adress].write(..) with the code Transmit(Abort)
AbortWriteCode(p) ==
    /\ call[p].pc = "a_write"
    /\ LET a == call[p].mailbox * 4
       IN /\ ram' = [ram EXCEPT ![a] = AbortWord]
          /\ call' = [call EXCEPT ![p] =
                [@ EXCEPT !.pc = "a_wait",
                          !.log = Append(@, Acc("w", "RAM", a, AbortWord))]]
    /\ sent' = [sent EXCEPT ![call[p].mailbox] = NoFrame]
    /\ UNCHANGED <<iflag, maxmb, lock, quiet, ncalls, nhw, initvars, conv, peripherals>>

\* while can.iflag1.read().bits() & (1 << mailbox) != 0 {}: one read of the
\* loop condition; the loop goes on while the flag is read as set.
AbortWait(p) ==
    /\ call[p].pc = "a_wait"
    /\ call' = [call EXCEPT ![p] =
          [@ EXCEPT !.pc = IF GetBit(iflag, call[p].mailbox) THEN "a_wait" ELSE "done",
                    !.result = IF GetBit(iflag, call[p].mailbox) THEN @ ELSE "None",
                    !.log = Logged(@, Acc("r", "IFLAG1", 0, iflag))]]
    /\ UNCHANGED <<ram, iflag, maxmb, lock, sent, quiet, ncalls, nhw, initvars, conv, peripherals>>

\* The controller answers an abort request: the frame is either withdrawn
\* (the code stays Abort) or had gone out already (the code becomes
\* Inactive); in both cases the interrupt flag of the mailbox is set.
HwAbort(m, gone) ==
    /\ nhw < MaxHw
    /\ m <= maxmb
    /\ m \notin iflag
    /\ Decode(CodeOf(ram[4 * m])) = TxCode("Abort")
    /\ ram' = [ram EXCEPT ![4 * m] =
                  IF gone THEN SetBits(@, 24, 28, Encode(TxCode("Inactive"))) ELSE @]
    /\ iflag' = iflag \cup {m}
    /\ quiet' = quiet \ {m}
    /\ nhw' = nhw + 1
    /\ UNCHANGED <<maxmb, lock, call, sent, ncalls, initvars, conv, peripherals>>

\* One step of a call of abort_mailbox by caller p.
AbortStep(p) ==
    \/ \E m \in Mailboxes : AbortCall(p, m)
    \/ AbortReadCode(p)
    \/ AbortClearFlag(p)
    \/ AbortWriteCode(p)
    \/ AbortWait(p)

\* A step of the controller on a transmit mailbox.
AbortHw ==
    \/ \E m \in Mailboxes : HwTxComplete(m)
    \/ \E m \in Mailboxes : \E gone \in BOOLEAN : HwAbort(m, gone)

\* Mailboxes in use whose control words hold any code, with any interrupt
\* flags pending.
AbortInit ==
    /\ \E codes \in [Mailboxes -> Patterns] :
          ram = [a \in RamWords |->
                    IF a % 4 = 0
                    THEN SetBits(CsWord(TransmitHeader, FilterFrame), 24, 28, codes[a \div 4])
                    ELSE IF a % 4 = 1 THEN IdWord(TransmitHeader, FilterFrame)
                    ELSE RamFill]
    /\ maxmb = MaxMB - 1
    /\ iflag \in SUBSET Mailboxes
    /\ lock = {}
    /\ call = [p \in Procs |-> IdleCall]
    /\ sent = [m \in Mailboxes |-> NoFrame]
    /\ quiet = {}
    /\ ncalls = 0
    /\ nhw = 0
    /\ mcr = McrRunning
    /\ ctrl1 = Ctrl1Example
    /\ rxmgmask = {}
    /\ icall = NoInit
    /\ conv = NoConv
    /\ IdlePeripherals

AbortNext == AbortStep("main") \/ AbortHw

\* abort_mailbox called on mailboxes of any code, beside the controller.
AbortSpec == AbortInit /\ [][AbortNext]_vars

\* ------------------------------------------------------------------ Can::init

\* One register access of Can::init, as kept in the log of the call: `fields`
\* are the fields a modify() or write() sets.
InitAcc(op, reg, idx, fields, val) ==
    [op |-> op, reg |-> reg, idx |-> idx, fields |-> fields, val |-> val]

\* The fields `fields` of the register value r: what an access is about.
Of(r, fields) == [f \in fields |-> r[f]]

\* What Can::init leaves alone in every step.
driver == <<lock, call, sent, quiet, ncalls, nhw, conv, peripherals>>

\* Message buffer RAM before the call: reset does not clear it, and the CODE
\* field of a control word may hold any of the 16 patterns.
PriorFills == {SetBits(RamFill, 24, 28, x) : x \in Patterns}

\* The mailbox headers handed to Can::init: the empty slice too.
InitHeaderSettings == HeaderSettings \cup {<< >>}

\* The state before the call of Can::init.
IdleDriver ==
    /\ iflag = {}
    /\ maxmb = 0
    /\ lock = {}
    /\ call = [p \in Procs |-> IdleCall]
    /\ sent = [m \in Mailboxes |-> NoFrame]
    /\ quiet = {}
    /\ ncalls = 0
    /\ nhw = 0
    /\ conv = NoConv
    /\ IdlePeripherals

InitInit ==
    /\ IdleDriver
    /\ \E fill \in PriorFills : ram = [a \in RamWords |-> fill]
    /\ mcr \in {McrDisabled, McrRunning}
    /\ ctrl1 = Ctrl1Reset
    /\ rxmgmask = 0 .. 31
    /\ icall = NoInit

\* The call Can::init(can, settings, message_buffer_settings).
InitCall(pair, settings, headers) ==
    /\ icall.pc = "idle"
    /\ icall' = [icall EXCEPT !.pc = "i_divisible", !.source = pair[1], !.can = pair[2],
                    !.settings = settings, !.headers = headers,
                    !.before = [mcr |-> mcr, ctrl1 |-> ctrl1, rxmgmask |-> rxmgmask,
                                ram |-> ram, maxmb |-> maxmb, iflag |-> iflag]]
    /\ UNCHANGED <<ram, iflag, maxmb, mcr, ctrl1, rxmgmask, driver>>

\* Mutant of InitCheckDivisible: the check comes after the controller has been
\* disabled for the reset.
InitCheckDivisible_Late ==
    /\ icall.pc = "i_divisible"
    /\ icall' =
          IF icall.can = 0
          THEN [icall EXCEPT !.pc = "panicked", !.panic = "remainder by zero"]
          ELSE IF icall.source % icall.can # 0
          THEN [icall EXCEPT !.pc = "done", !.result = "SettingsError",
                   !.log = @ \o <<InitAcc("r", "MCR", 0, {}, Of(mcr, {})),
                                  InitAcc("w", "MCR", 0, {"mdis"}, [mdis |-> TRUE])>>]
          ELSE [icall EXCEPT !.pc = "i_minimum"]
    /\ mcr' = IF icall.can # 0 /\ icall.source % icall.can # 0
              THEN [mcr EXCEPT !.mdis = TRUE] ELSE mcr
    /\ UNCHANGED <<ram, iflag, maxmb, ctrl1, rxmgmask, driver>>

\* if settings.source_frequency % settings.can_frequency != 0: the remainder
\* panics for a divisor of zero.
InitCheckDivisible ==
    /\ icall.pc = "i_divisible"
    /\ icall' =
          IF icall.can = 0
          THEN [icall EXCEPT !.pc = "panicked", !.panic = "remainder by zero"]
          ELSE IF icall.source % icall.can # 0
          THEN [icall EXCEPT !.pc = "done", !.result = "SettingsError"]
          ELSE [icall EXCEPT !.pc = "i_minimum"]
    /\ UNCHANGED <<ram, iflag, maxmb, mcr, ctrl1, rxmgmask, driver>>

\* if settings.source_frequency < settings.can_frequency*5: a product past
\* 2^32 - 1 panics in a build with overflow checks and wraps in one without.
InitCheckMinimum ==
    LET
        \* a * b in u32 arithmetic, for a below 2^31 and b below 2^15: the low 32 bits
        \* of the product as two 16-bit halves, and whether the product passed 2^32 - 1.
        MulU32(a, b) ==
            LET lo == (a % 65536) * b
                hi == (a \div 65536) * b + (lo \div 65536)
            IN  [hi |-> hi % 65536, lo |-> lo % 65536, overflow |-> hi >= 65536]
        \* a < v, for a u32 a and the low 32 bits v of a product.
        LtU32(a, v) ==
            \/ (a \div 65536) < v.hi
            \/ (a \div 65536) = v.hi /\ (a % 65536) < v.lo
    IN
    /\ icall.pc = "i_minimum"
    /\ LET v == MulU32(icall.can, 5)
       IN \E checks \in (IF v.overflow THEN BOOLEAN ELSE {FALSE}) :
             icall' =
                IF v.overflow /\ checks
                THEN [icall EXCEPT !.pc = "panicked", !.panic = "multiply with overflow"]
                ELSE IF LtU32(icall.source, v)
                THEN [icall EXCEPT !.pc = "done", !.result = "SettingsError"]
                ELSE [icall EXCEPT !.pc = "i_timing"]
    /\ UNCHANGED <<ram, iflag, maxmb, mcr, ctrl1, rxmgmask, driver>>

\* presdiv, tqs, the table lookup, pseg1 and propseg.
InitTiming ==
    LET
        \* let presdiv = (settings.source_frequency / settings.can_frequency) / 25
        Presdiv(source, can) == (source \div can) \div 25
        \* let tqs = ( settings.source_frequency / (presdiv + 1) ) / settings.can_frequency
        Tqs(source, can, presdiv) == (source \div (presdiv + 1)) \div can
    IN
    /\ icall.pc = "i_timing"
    /\ LET presdiv == Presdiv(icall.source, icall.can)
           tqs     == Tqs(icall.source, icall.can, presdiv)
           seg     == Segments(tqs)
       IN icall' =
             IF seg.panic
             THEN [icall EXCEPT !.pc = "panicked", !.presdiv = presdiv, !.tqs = tqs,
                      !.panic = "there should be between 8 and 25 tqs in an bit"]
             ELSE [icall EXCEPT !.pc = "reset_mdis", !.presdiv = presdiv, !.tqs = tqs,
                      !.seg = seg]
    /\ UNCHANGED <<ram, iflag, maxmb, mcr, ctrl1, rxmgmask, driver>>

\* The register value r with the fields of the record `set` replaced.
Modified(r, set) == [f \in DOMAIN r |-> IF f \in DOMAIN set THEN set[f] ELSE r[f]]

\* can.mcr.modify(..) at `from`: MCR is read, the fields of `set` are
\* replaced, and the result is written.
McrModify(from, to, set) ==
    /\ icall.pc = from
    /\ mcr' = Modified(mcr, set)
    /\ icall' = [icall EXCEPT !.pc = to,
                    !.log = @ \o <<InitAcc("r", "MCR", 0, {}, Of(mcr, {})),
                                   InitAcc("w", "MCR", 0, DOMAIN set, set)>>]
    /\ UNCHANGED <<ram, iflag, maxmb, ctrl1, rxmgmask, driver>>

\* while can.mcr.read().<bit>().is_..() {}: MCR is read until `bit` reads
\* `value`; the log keeps the read that ends the loop.
McrWait(from, to, bit, value) ==
    /\ icall.pc = from
    /\ mcr[bit] = value
    /\ icall' = [icall EXCEPT !.pc = to,
                    !.log = Append(@, InitAcc("r", "MCR", 0, {}, Of(mcr, {bit})))]
    /\ UNCHANGED <<ram, iflag, maxmb, mcr, ctrl1, rxmgmask, driver>>

\* can.ctrl1.modify(..) at `from`.
Ctrl1Modify(from, to, set) ==
    /\ icall.pc = from
    /\ ctrl1' = Modified(ctrl1, set)
    /\ icall' = [icall EXCEPT !.pc = to,
                    !.log = @ \o <<InitAcc("r", "CTRL1", 0, {}, Of(ctrl1, {})),
                                   InitAcc("w", "CTRL1", 0, DOMAIN set, set)>>]
    /\ UNCHANGED <<ram, iflag, maxmb, mcr, rxmgmask, driver>>

\* reset(can), line by line.
ResetDisable ==
    McrModify("reset_mdis", "reset_lpmack",
                [mdis |-> TRUE])

\* Mutant of ResetWaitDisabled: the loop waits for the acknowledgment to be clear.
ResetWaitDisabled_Clear ==
    McrWait("reset_lpmack", "reset_clksrc", "lpmack", FALSE)

ResetWaitDisabled ==
    McrWait("reset_lpmack", "reset_clksrc", "lpmack", TRUE)

ResetClockSource ==
    Ctrl1Modify("reset_clksrc", "reset_enable",
                [clksrc |-> TRUE])

ResetEnable ==
    McrModify("reset_enable", "reset_enabled",
                [mdis |-> FALSE])

ResetWaitEnabled ==
    McrWait("reset_enabled", "reset_softrst", "lpmack", FALSE)

ResetSoftReset ==
    McrModify("reset_softrst", "reset_softrst_done",
                [softrst |-> TRUE])

ResetWaitSoftReset ==
    McrWait("reset_softrst_done", "reset_mdis_again", "softrst", FALSE)

ResetDisableAgain ==
    McrModify("reset_mdis_again", "reset_lpmack_again",
                [mdis |-> TRUE])

ResetWaitDisabledAgain ==
    McrWait("reset_lpmack_again", "i_clksrc", "lpmack", TRUE)

\* can.ctrl1.modify(|_, w| w.clksrc().bit(settings.clock_source.clone().into()))
InitClockSource ==
    Ctrl1Modify("i_clksrc", "enable_mdis",
                [clksrc |-> ClockSourceBit(icall.settings.clock_source)])

\* enable(can)
EnableClear ==
    McrModify("enable_mdis", "enable_lpmack",
                [mdis |-> FALSE])

EnableWait ==
    McrWait("enable_lpmack", "freeze_set", "lpmack", FALSE)

\* enter_freeze(can)
EnterFreezeSet ==
    McrModify("freeze_set", "freeze_frzack",
                [frz |-> TRUE, halt |-> TRUE])

\* Mutant of EnterFreezeWait: the loop waits for the acknowledgment to be clear.
EnterFreezeWait_Clear ==
    McrWait("freeze_frzack", "i_mcr", "frzack", FALSE)

EnterFreezeWait ==
    McrWait("freeze_frzack", "i_mcr", "frzack", TRUE)

\* The number of mailbox headers handed to the call.
HeaderCount == Cardinality(DOMAIN icall.headers)

\* can.mcr.modify(..) with the global configuration and
\* maxmb().bits(message_buffer_settings.len() as u8-1): the subtraction
\* panics for an empty slice in a build with overflow checks and wraps to 255
\* in one without.
InitMcr ==
    LET
        \* v as the 7-bit field MAXMB takes it
        MaxmbField(v) == v % 128
    IN
    /\ icall.pc = "i_mcr"
    /\ \E checks \in (IF AsU8(HeaderCount) = 0 THEN BOOLEAN ELSE {FALSE}) :
          IF AsU8(HeaderCount) = 0 /\ checks
          THEN /\ icall' = [icall EXCEPT !.pc = "panicked",
                               !.panic = "subtract with overflow",
                               !.log = Append(@, InitAcc("r", "MCR", 0, {}, Of(mcr, {})))]
               /\ UNCHANGED <<mcr, maxmb>>
          ELSE LET new == [mcr EXCEPT !.rfen = FALSE,
                                      !.srxdis = ~icall.settings.self_reception,
                                      !.irmq = icall.settings.individual_masking,
                                      !.aen = TRUE,
                                      !.dma = FALSE]
               IN /\ mcr' = new
                  /\ maxmb' = MaxmbField((AsU8(HeaderCount) + 255) % 256)
                  /\ icall' = [icall EXCEPT !.pc = "i_ctrl1",
                                  !.log = @ \o
                                     <<InitAcc("r", "MCR", 0, {}, Of(mcr, {})),
                                       InitAcc("w", "MCR", 0,
                                               {"rfen", "srxdis", "irmq", "aen", "dma", "maxmb"},
                                               Of(new, {"rfen", "srxdis", "irmq", "aen", "dma"}))>>]
    /\ UNCHANGED <<ram, iflag, ctrl1, rxmgmask, driver>>

\* presdiv().bits(presdiv as u8)
PresdivField(presdiv) == AsU8(presdiv)

\* Mutant of InitCtrl1: the register is written, not modified, so that the
\* fields the closure does not set take their reset value.
InitCtrl1_Write ==
    Ctrl1Modify("i_ctrl1", "i_rxmgmask",
                [presdiv |-> PresdivField(icall.presdiv),
                 pseg1 |-> AsU8(icall.seg.pseg1) % 8,
                 pseg2 |-> AsU8(icall.seg.pseg2) % 8,
                 propseg |-> AsU8(icall.seg.propseg) % 8,
                 rjw |-> AsU8(icall.seg.rjw) % 4,
                 lpb |-> icall.settings.loopback_mode,
                 clksrc |-> FALSE])

\* can.ctrl1.modify(..) with the bit timing and the loop-back bit; PSEG1,
\* PSEG2 and PROPSEG are 3-bit fields, RJW is a 2-bit field.
InitCtrl1 ==
    Ctrl1Modify("i_ctrl1", "i_rxmgmask",
                [presdiv |-> PresdivField(icall.presdiv),
                 pseg1 |-> AsU8(icall.seg.pseg1) % 8,
                 pseg2 |-> AsU8(icall.seg.pseg2) % 8,
                 propseg |-> AsU8(icall.seg.propseg) % 8,
                 rjw |-> AsU8(icall.seg.rjw) % 4,
                 lpb |-> icall.settings.loopback_mode])

\* can.rxmgmask.write(unsafe {|w| w.bits(0)}), and the entry of the loop
\* for mb in 0..message_buffer_settings.len().
InitRxMask ==
    /\ icall.pc = "i_rxmgmask"
    /\ rxmgmask' = {}
    /\ icall' = [icall EXCEPT !.pc = IF HeaderCount > 0 THEN "i_inactivate" ELSE "leave_clear",
                    !.mb = 0,
                    !.log = Append(@, InitAcc("w", "RXMGMASK", 0, {"bits"}, {}))]
    /\ UNCHANGED <<ram, iflag, maxmb, mcr, ctrl1, driver>>

\* Mutant of InactiveOf: a receive mailbox is left Empty, that is active.
InactiveOf_Empty(code) ==
    IF code.dir = "Transmit" THEN TxCode("Inactive") ELSE RxCode("Empty", FALSE)

\* The code inactivate_mailbox writes for a mailbox that holds `code`.
InactiveOf(code) ==
    IF code.dir = "Transmit" THEN TxCode("Inactive") ELSE RxCode("Inactive", FALSE)

\* inactivate_mailbox(can, mb): the control word is read and decoded, which
\* panics for a pattern without a code, and written with the inactive code of
\* the same direction and zero elsewhere.
InactivateMailbox ==
    /\ icall.pc = "i_inactivate"
    /\ LET a    == 4 * icall.mb
           code == Decode(CodeOf(ram[a]))
           word == SetBits({}, 24, 28, Encode(InactiveOf(code)))
       IN IF code = PanicCode
          THEN /\ icall' = [icall EXCEPT !.pc = "panicked",
                               !.panic = "is not a valid MessageBufferCode",
                               !.log = Append(@, InitAcc("r", "RAM", a, {}, ram[a]))]
               /\ UNCHANGED ram
          ELSE /\ ram' = [ram EXCEPT ![a] = word]
               /\ icall' = [icall EXCEPT !.pc = "i_write",
                               !.log = @ \o <<InitAcc("r", "RAM", a, {}, ram[a]),
                                              InitAcc("w", "RAM", a, {"bits"}, word)>>]
    /\ UNCHANGED <<iflag, maxmb, mcr, ctrl1, rxmgmask, driver>>

\* write_mailbox(can, &message_buffer_settings[mb], &filter_frame, mb).unwrap():
\* the code is checked, the flag cleared, the ID word and the control word
\* written (the filter frame has no data); a refusal panics in unwrap().
InitWriteMailbox ==
    /\ icall.pc = "i_write"
    /\ LET a      == 4 * icall.mb
           header == icall.headers[icall.mb]
           code   == Decode(CodeOf(ram[a]))
           id     == IdWord(header, FilterFrame)
           cs     == CsWord(header, FilterFrame)
       IN IF code = PanicCode \/ WriteRefused(code)
          THEN /\ icall' = [icall EXCEPT !.pc = "panicked",
                               !.panic = IF code = PanicCode
                                         THEN "is not a valid MessageBufferCode"
                                         ELSE "unwrap on BusyMailboxWriteAttempted",
                               !.log = Append(@, InitAcc("r", "RAM", a, {}, ram[a]))]
               /\ UNCHANGED <<ram, iflag>>
          ELSE /\ iflag' = W1C(iflag, FlagMask(icall.mb))
               /\ ram' = [ram EXCEPT ![a + 1] = id, ![a] = cs]
               /\ icall' = [icall EXCEPT
                               !.pc = IF icall.mb + 1 < HeaderCount
                                      THEN "i_inactivate" ELSE "leave_clear",
                               !.mb = icall.mb + 1,
                               !.log = @ \o
                                  <<InitAcc("r", "RAM", a, {}, ram[a]),
                                    InitAcc("w", "IFLAG1", 0, {"bits"}, FlagMask(icall.mb)),
                                    InitAcc("r", "RAM", a + 1, {}, ram[a + 1]),
                                    InitAcc("w", "RAM", a + 1, {"bits"}, id),
                                    InitAcc("w", "RAM", a, {"bits"}, cs)>>]
    /\ UNCHANGED <<maxmb, mcr, ctrl1, rxmgmask, driver>>

\* leave_freeze(can)
LeaveFreezeClear ==
    McrModify("leave_clear", "leave_frzack",
                [halt |-> FALSE, frz |-> FALSE])

LeaveFreezeWait ==
    McrWait("leave_frzack", "i_return", "frzack", FALSE)

\* return Ok(Can(can))
InitReturn ==
    /\ icall.pc = "i_return"
    /\ icall' = [icall EXCEPT !.pc = "done", !.result = "Ok"]
    /\ UNCHANGED <<ram, iflag, maxmb, mcr, ctrl1, rxmgmask, driver>>

\* The controller answers a mode request: the low power acknowledgment
\* follows module disable.
HwLowPowerAck ==
    /\ mcr.lpmack # mcr.mdis
    /\ mcr' = [mcr EXCEPT !.lpmack = mcr.mdis]
    /\ UNCHANGED <<ram, iflag, maxmb, ctrl1, rxmgmask, icall, driver>>

\* A soft reset of the enabled controller ends: the bit clears itself.
HwSoftReset ==
    /\ mcr.softrst /\ ~mcr.lpmack
    /\ mcr' = [mcr EXCEPT !.softrst = FALSE]
    /\ UNCHANGED <<ram, iflag, maxmb, ctrl1, rxmgmask, icall, driver>>

\* The freeze acknowledgment follows freeze and halt of the enabled controller.
HwFreezeAck ==
    /\ mcr.frzack # (mcr.frz /\ mcr.halt /\ ~mcr.lpmack)
    /\ mcr' = [mcr EXCEPT !.frzack = (mcr.frz /\ mcr.halt /\ ~mcr.lpmack)]
    /\ UNCHANGED <<ram, iflag, maxmb, ctrl1, rxmgmask, icall, driver>>

\* A step of Can::init.
InitStep ==
    \/ \E pair \in FreqPairs : \E settings \in {ExampleSettings, OtherSettings} :
          \E headers \in InitHeaderSettings : InitCall(pair, settings, headers)
    \/ InitCheckDivisible
    \/ InitCheckMinimum
    \/ InitTiming
    \/ ResetDisable
    \/ ResetWaitDisabled
    \/ ResetClockSource
    \/ ResetEnable
    \/ ResetWaitEnabled
    \/ ResetSoftReset
    \/ ResetWaitSoftReset
    \/ ResetDisableAgain
    \/ ResetWaitDisabledAgain
    \/ InitClockSource
    \/ EnableClear
    \/ EnableWait
    \/ EnterFreezeSet
    \/ EnterFreezeWait
    \/ InitMcr
    \/ InitCtrl1
    \/ InitRxMask
    \/ InactivateMailbox
    \/ InitWriteMailbox
    \/ LeaveFreezeClear
    \/ LeaveFreezeWait
    \/ InitReturn

\* A step of the controller while Can::init runs.
InitHw == HwLowPowerAck \/ HwSoftReset \/ HwFreezeAck

InitNext == InitStep \/ InitHw

\* Can::init, called once, beside the controller.
InitSpec == InitInit /\ [][InitNext]_vars

\* Can::init beside a controller that answers every mode request: the program
\* keeps taking its steps, and the controller does not leave a request
\* unanswered for ever.
InitLiveSpec == InitInit /\ [][InitNext]_vars /\ WF_vars(InitStep) /\ WF_vars(InitHw)

\* ------------------------------------------------------------------ conversions on their own

\* u8::from(code)
ConvEncode ==
    /\ conv.pc = "encode"
    /\ conv' = [conv EXCEPT !.pattern = Encode(conv.code),
                   !.pc = IF conv.fn = "encode" THEN "decode" ELSE "done"]
    /\ UNCHANGED <<ram, iflag, maxmb, lock, call, sent, quiet, ncalls, nhw, initvars, peripherals>>

\* MessageBufferCode::from(pattern): the last arm panics.
ConvDecode ==
    /\ conv.pc = "decode"
    /\ conv' = IF Decode(conv.pattern) = PanicCode
               THEN [conv EXCEPT !.pc = "panicked"]
               ELSE [conv EXCEPT !.code = Decode(conv.pattern),
                        !.pc = IF conv.fn = "decode" THEN "encode" ELSE "done"]
    /\ UNCHANGED <<ram, iflag, maxmb, lock, call, sent, quiet, ncalls, nhw, initvars, peripherals>>

\* The table lookup and the segment formulas of Can::init.
ConvSegments ==
    /\ conv.pc = "segments"
    /\ conv' = [conv EXCEPT !.seg = Segments(conv.tqs),
                   !.pc = IF Segments(conv.tqs).panic THEN "panicked" ELSE "done"]
    /\ UNCHANGED <<ram, iflag, maxmb, lock, call, sent, quiet, ncalls, nhw, initvars, peripherals>>

ConvInit ==
    /\ conv \in ConvInputs
    /\ ram = [a \in RamWords |-> RamFill]
    /\ iflag = {}
    /\ maxmb = 0
    /\ lock = {}
    /\ call = [p \in Procs |-> IdleCall]
    /\ sent = [m \in Mailboxes |-> NoFrame]
    /\ quiet = {}
    /\ ncalls = 0
    /\ nhw = 0
    /\ mcr = McrDisabled
    /\ ctrl1 = Ctrl1Reset
    /\ rxmgmask = {}
    /\ icall = NoInit
    /\ IdlePeripherals

ConvNext == ConvEncode \/ ConvDecode \/ ConvSegments

\* The conversions of the mailbox code and the segment calculation, each
\* applied to every input.
ConvSpec == ConvInit /\ [][ConvNext]_vars


\* ------------------------------------------------------------------ CSEc: the parameter RAM

LOWER_HALF_MASK == 0 .. 15
LOWER_HALF_SHIFT == 0
UPPER_HALF_MASK == 16 .. 31

\* u8_be_array_from_u32(x): the four bytes of x, the most significant first.
U8BeArrayFromU32(x) ==
    << GetBits(x, 24, 32), GetBits(x, 16, 24), GetBits(x, 8, 16), GetBits(x, 0, 8) >>

\* u32::from_be_bytes(b)
U32FromBeBytes(b) ==
    BitsFrom(b[1], 24) \cup BitsFrom(b[2], 16) \cup BitsFrom(b[3], 8) \cup BitsFrom(b[4], 0)

\* read_pram(n)
ReadPram(pram, n) == U8BeArrayFromU32(pram[n])

\* write_pram(n, buf)
WritePram(pram, n, buf) == [pram EXCEPT ![n] = U32FromBeBytes(buf)]

\* read_command_halfword(offset)
ReadCommandHalfwordOf(pram, offset) ==
    LET
        \* u16::from_be_bytes(b)
        U16FromBeBytes(b) == b[1] * 256 + b[2]
    IN
    LET page == ReadPram(pram, offset \div 4)
    IN  U16FromBeBytes(IF (offset \div 2) % 2 # 0
                       THEN <<page[3], page[4]>>
                       ELSE <<page[1], page[2]>>)

\* The word write_command_halfword puts back for the word `page` it read:
\* the half chosen by offset & 2 is cleared, and halfword << LOWER_HALF_SHIFT,
\* masked to that half, is or-ed in.
HalfwordPage(page, offset, halfword) ==
    LET
        \* x << shift, in 32 bits.
        ShiftLeft(x, shift) == {b + shift : b \in x} \cap (0 .. 31)
    IN
    IF (offset \div 2) % 2 # 0
    THEN (page \ LOWER_HALF_MASK)
            \cup (ShiftLeft(BitsFrom(halfword, 0), LOWER_HALF_SHIFT) \cap LOWER_HALF_MASK)
    ELSE (page \ UPPER_HALF_MASK)
            \cup (ShiftLeft(BitsFrom(halfword, 0), LOWER_HALF_SHIFT) \cap UPPER_HALF_MASK)

\* write_command_halfword(offset, halfword)
WriteCommandHalfwordOf(pram, offset, halfword) ==
    LET page == U32FromBeBytes(ReadPram(pram, offset \div 4))
    IN  WritePram(pram, offset \div 4,
                  U8BeArrayFromU32(HalfwordPage(page, offset, halfword)))

\* The 16-bit aligned offsets of the parameter RAM.
HalfwordOffsets == {2 * k : k \in 0 .. 63}

\* The halfwords written: 0, 1, 0x0080, 0xABCD, 0xFFFF.
HalfwordValues == {0, 1, 128, 43981, 65535}

\* A call of write_command_halfword(offset, halfword).
HalfwordCall(offset, halfword) ==
    /\ csec.fn = "none"
    /\ csec' = [csec EXCEPT !.fn = "halfword", !.pc = "h_write", !.offset = offset,
                   !.halfword = halfword, !.before = csec.pram[offset \div 4]]
    /\ UNCHANGED <<ram, iflag, maxmb, initvars, lock, call, sent, quiet, ncalls, nhw, conv,
                   wdog, pcc>>

\* The body of write_command_halfword.
WriteCommandHalfword ==
    /\ csec.pc = "h_write"
    /\ csec' = [csec EXCEPT !.pc = "h_read",
                   !.pram = WriteCommandHalfwordOf(csec.pram, csec.offset, csec.halfword)]
    /\ UNCHANGED <<ram, iflag, maxmb, initvars, lock, call, sent, quiet, ncalls, nhw, conv,
                   wdog, pcc>>

\* The call of read_command_halfword(offset) that follows.
ReadCommandHalfword ==
    /\ csec.pc = "h_read"
    /\ csec' = [csec EXCEPT !.pc = "done",
                   !.out = ReadCommandHalfwordOf(csec.pram, csec.offset)]
    /\ UNCHANGED <<ram, iflag, maxmb, initvars, lock, call, sent, quiet, ncalls, nhw, conv,
                   wdog, pcc>>

\* The FlexCAN and its driver at rest.
IdleCan ==
    /\ ram = [a \in RamWords |-> RamFill]
    /\ iflag = {}
    /\ maxmb = 0
    /\ lock = {}
    /\ call = [p \in Procs |-> IdleCall]
    /\ sent = [m \in Mailboxes |-> NoFrame]
    /\ quiet = {}
    /\ ncalls = 0
    /\ nhw = 0
    /\ mcr = McrDisabled
    /\ ctrl1 = Ctrl1Reset
    /\ rxmgmask = {}
    /\ icall = NoInit
    /\ conv = NoConv

\* The parameter RAM filled with any of the fills, no call made yet.
HalfwordInit ==
    /\ IdleCan
    /\ \E fill \in PramFills : csec = [NoCsec EXCEPT !.pram = [n \in PramWords |-> fill]]
    /\ wdog = NoWdog
    /\ pcc = NoPcc

HalfwordNext ==
    \/ \E offset \in HalfwordOffsets : \E halfword \in HalfwordValues :
          HalfwordCall(offset, halfword)
    \/ WriteCommandHalfword
    \/ ReadCommandHalfword

\* A halfword written to the parameter RAM and read back, for every offset.
HalfwordSpec == HalfwordInit /\ [][HalfwordNext]_vars

\* ------------------------------------------------------------------ CSEc: commands

PAGE_1_OFFSET == 16
PAGE_2_OFFSET == 32
PAGE_LENGTH_OFFSET == 14
PAGE_SIZE_IN_BYTES == 16
ERROR_BITS_OFFSET == 4
BYTES_TO_PAGES_SHIFT == 4

\* x >> shift
ShiftRight(x, shift) == x \div (2 ^ shift)

\* One step of a call on the parameter RAM, as kept in the log of the call:
\* n bytes of the caller's slice, from its byte `from` on, written to or read
\* from `offset`, or a command header with its sequence marker.
Ev(op, offset, from, n, seq) ==
    [op |-> op, offset |-> offset, from |-> from, n |-> n, seq |-> seq]

\* CommandResult::from_u16(value): any other value panics.
CommandResultFromU16(value) ==
    CASE value = 1    -> "NoError"
      [] value = 2    -> "SequenceError"
      [] value = 4    -> "KeyNotAvailable"
      [] value = 8    -> "KeyInvalid"
      [] value = 16   -> "KeyEmpty"
      [] value = 32   -> "NoSecureBoot"
      [] value = 64   -> "KeyWriteProtected"
      [] value = 128  -> "KeyUpdateError"
      [] value = 256  -> "RngSeed"
      [] value = 512  -> "NoDebugging"
      [] value = 1024 -> "MemoryFailure"
      [] value = 2048 -> "GeneralError"
      [] OTHER        -> "Panic"

\* The error bits the CSEc may leave after a command: no error, a sequence
\* error, a general error, two errors at once, none at all.
ErrorBits == {1, 2, 2048, 10, 0}

\* write_command_header, up to the wait: the header word is written, which
\* starts the command and clears CCIF.
WriteCommandHeader(c, to) ==
    [c EXCEPT !.pc = to, !.ccif = FALSE,
              !.log = Append(@, Ev("command", 0, 0, 0, c.sequence))]

\* write_command_header, from the wait on: CCIF is read as set, the error
\* bits are read and turned into the result; `ok` is where the caller goes on.
CommandStatus(c, ok) ==
    LET status == CommandResultFromU16(ReadCommandHalfwordOf(c.pram, ERROR_BITS_OFFSET))
    IN  CASE status = "NoError" -> [c EXCEPT !.pc = ok]
          [] status = "Panic"   -> [c EXCEPT !.pc = "panicked", !.result = "Panic"]
          [] OTHER              -> [c EXCEPT !.pc = "done", !.result = status]

\* The pages a command works on: from the page of page_offset to page 7.
CommandPages(c) == (c.page_offset \div PAGE_SIZE_IN_BYTES) .. MAX_PAGES

\* The CSEc ends a command: it leaves the error bits in the header page, has
\* turned the blocks of the command into their results where it reports no
\* error, and sets CCIF.
HwCommandDone(bits) ==
    /\ ~csec.ccif
    /\ csec' = [csec EXCEPT
          !.ccif = TRUE,
          !.pram = [@ EXCEPT ![ERROR_BITS_OFFSET \div 4] = SetBits(@, 16, 32, bits)],
          !.pages = [p \in 1 .. MAX_PAGES |->
                        IF bits = 1 /\ p \in CommandPages(csec) /\ @[p].kind = "in"
                        THEN Out(@[p].block) ELSE @[p]]]
    /\ UNCHANGED <<ram, iflag, maxmb, initvars, lock, call, sent, quiet, ncalls, nhw, conv,
                   wdog, pcc>>

\* ------------------------------------------------------------------ CSEc::handle_cbc

\* The buffer lengths handed to encrypt_cbc and decrypt_cbc: every multiple
\* of 16 up to MaxBlocks blocks, and lengths that 16 does not divide.
CbcLengths == {16 * k : k \in 0 .. MaxBlocks} \cup {1, 15, 17, 40, 100}

\* Blocks first .. first + n - 1 of the buffer.
Blocks(first, n) == first .. (first + n - 1)

\* A call of encrypt_cbc(init_vec, buffer) or decrypt_cbc(init_vec, buffer).
CbcCall(command, len) ==
    /\ csec.fn = "none"
    /\ csec' = [csec EXCEPT !.fn = "cbc", !.pc = "c_check", !.command = command,
                   !.len = len,
                   !.buffer = [k \in 1 .. (len \div PAGE_SIZE_IN_BYTES) |-> In(k)]]
    /\ UNCHANGED <<ram, iflag, maxmb, initvars, lock, call, sent, quiet, ncalls, nhw, conv,
                   wdog, pcc>>

\* if buffer.len() % 16 != 0 || (buffer.len() >> BYTES_TO_PAGES_SHIFT) > u16::max_value()
CbcCheck ==
    /\ csec.pc = "c_check"
    /\ csec' = IF csec.len % 16 # 0
                    \/ ShiftRight(csec.len, BYTES_TO_PAGES_SHIFT) > 65535
               THEN [csec EXCEPT !.pc = "done", !.result = "GeneralError"]
               ELSE [csec EXCEPT !.pc = "c_init_vec"]
    /\ UNCHANGED <<ram, iflag, maxmb, initvars, lock, call, sent, quiet, ncalls, nhw, conv,
                   wdog, pcc>>

\* self.write_command_bytes(PAGE_1_OFFSET, init_vec)
CbcWriteInitVec ==
    /\ csec.pc = "c_init_vec"
    /\ csec' = [csec EXCEPT !.pc = "c_page_length",
                   !.pages = [@ EXCEPT ![PAGE_1_OFFSET \div PAGE_SIZE_IN_BYTES] = InitVec],
                   !.log = Append(@, Ev("init_vec", PAGE_1_OFFSET, 0, PAGE_SIZE_IN_BYTES,
                                        "none"))]
    /\ UNCHANGED <<ram, iflag, maxmb, initvars, lock, call, sent, quiet, ncalls, nhw, conv,
                   wdog, pcc>>

\* self.write_command_halfword(PAGE_LENGTH_OFFSET, ..), and the first call of
\* process_blocks, with Sequence::First and the whole buffer.
CbcWritePageLength ==
    LET
        \* max((buffer.len() >> BYTES_TO_PAGES_SHIFT) as u16, 1)
        PageLength(len) ==
            IF ShiftRight(len, BYTES_TO_PAGES_SHIFT) % 65536 > 1
            THEN ShiftRight(len, BYTES_TO_PAGES_SHIFT) % 65536 ELSE 1
    IN
    /\ csec.pc = "c_page_length"
    /\ csec' = [csec EXCEPT !.pc = "c_write", !.sequence = "First", !.start = 0,
                   !.pram = WriteCommandHalfwordOf(@, PAGE_LENGTH_OFFSET,
                                                   PageLength(csec.len)),
                   !.log = Append(@, Ev("page_length", PAGE_LENGTH_OFFSET, 0, 2, "none"))]
    /\ UNCHANGED <<ram, iflag, maxmb, initvars, lock, call, sent, quiet, ncalls, nhw, conv,
                   wdog, pcc>>

\* Mutant of CbcPlace: the first round is placed like the later ones, over the
\* initialization vector.
CbcPlace_OverInitVec(sequence) ==
    [page_offset |-> PAGE_1_OFFSET, avail_pages |-> MAX_PAGES]

\* let (page_offset, avail_pages) = if sequence == Sequence::First {..} else {..}
CbcPlace(sequence) ==
    IF sequence = "First"
    THEN [page_offset |-> PAGE_2_OFFSET, avail_pages |-> MAX_PAGES - 1]
    ELSE [page_offset |-> PAGE_1_OFFSET, avail_pages |-> MAX_PAGES]

\* process_blocks, to cse.write_command_bytes(page_offset, &buffer[..bytes]):
\* the slice is what is left of the buffer from byte `start` on.
CbcWriteBlocks ==
    LET
        \* min(buffer.len() >> BYTES_TO_PAGES_SHIFT, avail_pages) * PAGE_SIZE_IN_BYTES
        CbcBytes(len, avail_pages) ==
            (IF ShiftRight(len, BYTES_TO_PAGES_SHIFT) < avail_pages
             THEN ShiftRight(len, BYTES_TO_PAGES_SHIFT) ELSE avail_pages) * PAGE_SIZE_IN_BYTES
    IN
    /\ csec.pc = "c_write"
    /\ LET place == CbcPlace(csec.sequence)
           bytes == CbcBytes(csec.len - csec.start, place.avail_pages)
           page  == place.page_offset \div PAGE_SIZE_IN_BYTES
           first == csec.start \div PAGE_SIZE_IN_BYTES
       IN csec' = [csec EXCEPT !.pc = "c_command",
                      !.page_offset = place.page_offset, !.bytes = bytes,
                      !.pages = [p \in 1 .. MAX_PAGES |->
                                    IF p \in Blocks(page, bytes \div PAGE_SIZE_IN_BYTES)
                                    THEN csec.buffer[first + 1 + (p - page)] ELSE @[p]],
                      !.log = Append(@, Ev("write", place.page_offset, csec.start, bytes,
                                           "none"))]
    /\ UNCHANGED <<ram, iflag, maxmb, initvars, lock, call, sent, quiet, ncalls, nhw, conv,
                   wdog, pcc>>

\* cse.write_command_header(command, Format::Copy, sequence, KeyID::RamKey)?:
\* the write of the header.
CbcCommand ==
    /\ csec.pc = "c_command"
    /\ csec' = WriteCommandHeader(csec, "c_wait")
    /\ UNCHANGED <<ram, iflag, maxmb, initvars, lock, call, sent, quiet, ncalls, nhw, conv,
                   wdog, pcc>>

\* The end of the wait for CCIF and the result of the command; an error
\* returns from process_blocks and from handle_cbc.
CbcStatus ==
    /\ csec.pc = "c_wait"
    /\ csec.ccif
    /\ csec' = CommandStatus(csec, "c_read")
    /\ UNCHANGED <<ram, iflag, maxmb, initvars, lock, call, sent, quiet, ncalls, nhw, conv,
                   wdog, pcc>>

\* cse.read_command_bytes(page_offset, &mut buffer[..bytes]), and then the
\* next call of process_blocks with Sequence::Subsequent and the rest of the
\* buffer, or Ok(()) when nothing is left.
CbcReadBlocks ==
    /\ csec.pc = "c_read"
    /\ LET page  == csec.page_offset \div PAGE_SIZE_IN_BYTES
           first == csec.start \div PAGE_SIZE_IN_BYTES
           c == [csec EXCEPT
                    !.buffer = [k \in DOMAIN @ |->
                                   IF k \in Blocks(first + 1, csec.bytes \div PAGE_SIZE_IN_BYTES)
                                   THEN csec.pages[page + (k - first - 1)] ELSE @[k]],
                    !.log = Append(@, Ev("read", csec.page_offset, csec.start, csec.bytes,
                                         "none"))]
       IN csec' = IF (csec.len - csec.start) - csec.bytes # 0
                  THEN [c EXCEPT !.pc = "c_write", !.sequence = "Subsequent",
                                 !.start = csec.start + csec.bytes]
                  ELSE [c EXCEPT !.pc = "done", !.result = "Ok"]
    /\ UNCHANGED <<ram, iflag, maxmb, initvars, lock, call, sent, quiet, ncalls, nhw, conv,
                   wdog, pcc>>

\* The parameter RAM as an earlier command left it.
CbcInit ==
    /\ IdleCan
    /\ \E fill \in PramFills : csec = [NoCsec EXCEPT !.pram = [n \in PramWords |-> fill]]
    /\ wdog = NoWdog
    /\ pcc = NoPcc

CbcNext ==
    \/ \E command \in {"EncCbc", "DecCbc"} : \E len \in CbcLengths : CbcCall(command, len)
    \/ CbcCheck
    \/ CbcWriteInitVec
    \/ CbcWritePageLength
    \/ CbcWriteBlocks
    \/ CbcCommand
    \/ \E bits \in ErrorBits : HwCommandDone(bits)
    \/ CbcStatus
    \/ CbcReadBlocks

\* encrypt_cbc and decrypt_cbc on buffers of every length, beside the CSEc.
CbcSpec == CbcInit /\ [][CbcNext]_vars

\* ------------------------------------------------------------------ CSEc::verify_mac

MAC_MESSAGE_LENGTH_OFFSET == 12
MAC_VERIFICATION_BITS_OFFSET == PAGE_1_OFFSET + 4
MAC_LENGTH_OFFSET == 8

\* The message lengths handed to verify_mac, in bytes.
MacLengths == 0 .. MaxMessage

\* The verification status bits the CSEc may leave: the CMAC matches, or not.
VerificationBits == {0, 1}

\* A call of verify_mac(message, cmac).
MacCall(len) ==
    /\ csec.fn = "none"
    /\ csec' = [csec EXCEPT !.fn = "mac", !.pc = "m_check", !.command = "VerifyMac",
                   !.len = len]
    /\ UNCHANGED <<ram, iflag, maxmb, initvars, lock, call, sent, quiet, ncalls, nhw, conv,
                   wdog, pcc>>

\* if message.len() == 0 || message.len() > u32::max_value() as usize
MacCheck ==
    /\ csec.pc = "m_check"
    /\ csec' = IF csec.len = 0
               THEN [csec EXCEPT !.pc = "done", !.result = "GeneralError"]
               ELSE [csec EXCEPT !.pc = "m_length"]
    /\ UNCHANGED <<ram, iflag, maxmb, initvars, lock, call, sent, quiet, ncalls, nhw, conv,
                   wdog, pcc>>

\* write_command_words(offset, &[word]): the upper halfword at offset, the
\* lower at offset + 2.
WriteCommandWordOf(pram, offset, word) ==
    WriteCommandHalfwordOf(WriteCommandHalfwordOf(pram, offset, word \div 65536),
                           offset + 2, word % 65536)

\* The message length in bits and the number of bits of the CMAC to compare
\* are written; then the first call of process_blocks, with Sequence::First,
\* the whole message and mac_written = false.
MacWriteLengths ==
    /\ csec.pc = "m_length"
    /\ csec' = [csec EXCEPT !.pc = "m_write", !.sequence = "First", !.start = 0,
                   !.mac_written = FALSE,
                   !.pram = WriteCommandHalfwordOf(
                               WriteCommandWordOf(@, MAC_MESSAGE_LENGTH_OFFSET, csec.len * 8),
                               MAC_LENGTH_OFFSET, PAGE_SIZE_IN_BYTES * 8),
                   !.log = @ \o << Ev("message_length", MAC_MESSAGE_LENGTH_OFFSET, 0, 4, "none"),
                                   Ev("mac_length", MAC_LENGTH_OFFSET, 0, 2, "none") >>]
    /\ UNCHANGED <<ram, iflag, maxmb, initvars, lock, call, sent, quiet, ncalls, nhw, conv,
                   wdog, pcc>>

\* Mutant of CmacPlaced: the expected CMAC is appended in every round that
\* has not written it, whatever page comes next.
CmacPlaced_AnyPage(mac_written, next_page) == ~mac_written

\* if !mac_written && next_page < MAX_PAGES
CmacPlaced(mac_written, next_page) == ~mac_written /\ next_page < MAX_PAGES

\* process_blocks, to the command: the bytes of this round are written from
\* page 1 on and, if the page after them is below MAX_PAGES and the expected
\* CMAC has not been written, the CMAC is written to that page.
MacWriteBytes ==
    LET
        \* core::cmp::min(message.len(), MAX_PAGES * PAGE_SIZE_IN_BYTES)
        MacBytes(len) ==
            IF len < MAX_PAGES * PAGE_SIZE_IN_BYTES THEN len ELSE MAX_PAGES * PAGE_SIZE_IN_BYTES
        \* (PAGE_1_OFFSET + bytes + PAGE_SIZE_IN_BYTES - 1) / PAGE_SIZE_IN_BYTES
        NextPage(bytes) == (PAGE_1_OFFSET + bytes + PAGE_SIZE_IN_BYTES - 1) \div PAGE_SIZE_IN_BYTES
        \* The pages ceil(n / 16) pages from page 1 on, each with its block of the
        \* message (the last one may be partly filled).
        MessagePages(pages, start, bytes) ==
            [p \in 1 .. MAX_PAGES |->
                IF p <= (bytes + PAGE_SIZE_IN_BYTES - 1) \div PAGE_SIZE_IN_BYTES
                THEN In(start \div PAGE_SIZE_IN_BYTES + p) ELSE pages[p]]
    IN
    /\ csec.pc = "m_write"
    /\ LET bytes     == MacBytes(csec.len - csec.start)
           next_page == NextPage(bytes)
           placed    == CmacPlaced(csec.mac_written, next_page)
           filled    == MessagePages(csec.pages, csec.start, bytes)
       IN csec' = [csec EXCEPT !.pc = "m_command", !.bytes = bytes,
                      !.page_offset = PAGE_1_OFFSET,
                      !.mac_written = @ \/ placed,
                      !.pages = IF placed /\ next_page \in 1 .. MAX_PAGES
                                THEN [filled EXCEPT ![next_page] = Cmac] ELSE filled,
                      !.log = @ \o << Ev("write", PAGE_1_OFFSET, csec.start, bytes, "none") >>
                                \o (IF placed
                                    THEN << Ev("cmac", next_page * PAGE_SIZE_IN_BYTES, 0,
                                               PAGE_SIZE_IN_BYTES, "none") >>
                                    ELSE << >>)]
    /\ UNCHANGED <<ram, iflag, maxmb, initvars, lock, call, sent, quiet, ncalls, nhw, conv,
                   wdog, pcc>>

\* cse.write_command_header(Command::VerifyMac, Format::Copy, sequence, KeyID::RamKey)?:
\* the write of the header.
MacCommand ==
    /\ csec.pc = "m_command"
    /\ csec' = WriteCommandHeader(csec, "m_wait")
    /\ UNCHANGED <<ram, iflag, maxmb, initvars, lock, call, sent, quiet, ncalls, nhw, conv,
                   wdog, pcc>>

\* The CSEc ends a VerifyMac command: error bits, verification status bits
\* and CCIF.
HwVerifyDone(bits, status) ==
    /\ ~csec.ccif
    /\ csec' = [csec EXCEPT
          !.ccif = TRUE,
          !.pram = [@ EXCEPT ![ERROR_BITS_OFFSET \div 4] = SetBits(@, 16, 32, bits),
                             ![MAC_VERIFICATION_BITS_OFFSET \div 4] = SetBits(@, 16, 32, status)]]
    /\ UNCHANGED <<ram, iflag, maxmb, initvars, lock, call, sent, quiet, ncalls, nhw, conv,
                   wdog, pcc>>

\* The end of the wait for CCIF and the result of the command; an error
\* returns from process_blocks and from verify_mac.
MacStatus ==
    /\ csec.pc = "m_wait"
    /\ csec.ccif
    /\ csec' = CommandStatus(csec, "m_success")
    /\ UNCHANGED <<ram, iflag, maxmb, initvars, lock, call, sent, quiet, ncalls, nhw, conv,
                   wdog, pcc>>

\* let success = cse.read_command_halfword(MAC_VERIFICATION_BITS_OFFSET) == 0,
\* and then the next call of process_blocks with Sequence::Subsequent and the
\* rest of the message, or Ok(success) when the CMAC has been written.
MacReadSuccess ==
    /\ csec.pc = "m_success"
    /\ LET c == [csec EXCEPT
                    !.success = ReadCommandHalfwordOf(csec.pram,
                                                      MAC_VERIFICATION_BITS_OFFSET) = 0,
                    !.log = Append(@, Ev("status", MAC_VERIFICATION_BITS_OFFSET, 0, 2,
                                         "none"))]
       IN csec' = IF ~csec.mac_written
                  THEN [c EXCEPT !.pc = "m_write", !.sequence = "Subsequent",
                                 !.start = csec.start + csec.bytes]
                  ELSE [c EXCEPT !.pc = "done", !.result = "Ok"]
    /\ UNCHANGED <<ram, iflag, maxmb, initvars, lock, call, sent, quiet, ncalls, nhw, conv,
                   wdog, pcc>>

MacNext ==
    \/ \E len \in MacLengths : MacCall(len)
    \/ MacCheck
    \/ MacWriteLengths
    \/ MacWriteBytes
    \/ MacCommand
    \/ \E bits \in ErrorBits : \E status \in VerificationBits : HwVerifyDone(bits, status)
    \/ MacStatus
    \/ MacReadSuccess

\* verify_mac on messages of every length, beside the CSEc.
MacSpec == CbcInit /\ [][MacNext]_vars

\* ------------------------------------------------------------------ wdog::reconfigure

UNLOCK_TRIES == 3

\* The passes of the polling loop, scaled down.
UNLOCK_CHECKS == MaxChecks

\* The registers apply_settings writes.
ConfigRegisters == {"toval", "win", "cs"}

\* One access the driver makes: a read of CS.ULK or CS.RCS with the value
\* read, the write of the unlock key to CNT, the write of one configuration
\* register (val: the watchdog was unlocked and took it), or a pass of the
\* polling loop that reads no register.
WEv(op, val) == [op |-> op, val |-> val]

\* Mutant of Unlocked: the closure takes the watchdog for unlocked after any
\* read of CS.ULK.
Unlocked_AfterAnyRead(w) ==
    IF w.unlocked_flag THEN w
    ELSE [w EXCEPT !.unlocked_flag = TRUE, !.log = Append(@, WEv("read_ulk", w.ulk))]

\* The closure unlocked: true once CS.ULK has been read as 1, and a read of
\* CS.ULK until then.
Unlocked(w) ==
    IF w.unlocked_flag THEN w
    ELSE [w EXCEPT !.unlocked_flag = w.ulk, !.log = Append(@, WEv("read_ulk", w.ulk))]

\* A call of reconfigure(settings).
ReconfigureCall ==
    /\ wdog.fn = "none"
    /\ wdog' = [wdog EXCEPT !.fn = "reconfigure", !.pc = "w_entry"]
    /\ UNCHANGED <<ram, iflag, maxmb, initvars, lock, call, sent, quiet, ncalls, nhw, conv,
                   csec, pcc>>

\* if !unlocked(wdog) && under_configuration(wdog): the left operand.
ReconfigureEntry ==
    /\ wdog.pc = "w_entry"
    /\ LET w == Unlocked(wdog)
       IN wdog' = [w EXCEPT !.pc = IF w.unlocked_flag THEN "w_try" ELSE "w_under"]
    /\ UNCHANGED <<ram, iflag, maxmb, initvars, lock, call, sent, quiet, ncalls, nhw, conv,
                   csec, pcc>>

\* The right operand, a read of CS.RCS, and the return of
\* ReconfigurationDisallowed.
ReconfigureUnderConfiguration ==
    /\ wdog.pc = "w_under"
    /\ LET w == [wdog EXCEPT !.log = Append(@, WEv("read_rcs", wdog.rcs))]
       IN wdog' = IF ~wdog.rcs
                  THEN [w EXCEPT !.pc = "done", !.result = "ReconfigurationDisallowed"]
                  ELSE [w EXCEPT !.pc = "w_try"]
    /\ UNCHANGED <<ram, iflag, maxmb, initvars, lock, call, sent, quiet, ncalls, nhw, conv,
                   csec, pcc>>

\* for _tries in 0..UNLOCK_TRIES { unlock(wdog); let mut i = UNLOCK_CHECKS;
\* The key takes effect only while updates are allowed.
ReconfigureUnlock ==
    /\ wdog.pc = "w_try"
    /\ wdog' = IF wdog.tries < UNLOCK_TRIES
               THEN [wdog EXCEPT !.pc = "w_poll", !.tries = @ + 1, !.i = UNLOCK_CHECKS,
                                 !.pending = @ \/ (wdog.update /\ ~wdog.ulk),
                                 !.log = Append(@, WEv("unlock", TRUE))]
               ELSE [wdog EXCEPT !.pc = "w_final"]
    /\ UNCHANGED <<ram, iflag, maxmb, initvars, lock, call, sent, quiet, ncalls, nhw, conv,
                   csec, pcc>>

ReconfigurePoll ==
    LET
        \* while i > 0 { if unlocked(wdog) { i -= 1; } else { break; } }: one pass.
        \* A pass that finds the flag set reads no register.
        PollPass(w) ==
            IF w.i > 0
            THEN IF w.unlocked_flag
                 THEN [w EXCEPT !.i = @ - 1, !.log = Append(@, WEv("pass", TRUE))]
                 ELSE IF Unlocked(w).unlocked_flag
                      THEN [Unlocked(w) EXCEPT !.i = @ - 1]
                      ELSE [Unlocked(w) EXCEPT !.pc = "w_after"]
            ELSE [w EXCEPT !.pc = "w_after"]
    IN
    /\ wdog.pc = "w_poll"
    /\ wdog' = PollPass(wdog)
    /\ UNCHANGED <<ram, iflag, maxmb, initvars, lock, call, sent, quiet, ncalls, nhw, conv,
                   csec, pcc>>

\* if unlocked(wdog) { break; } at the end of a try.
ReconfigureAfterPoll ==
    /\ wdog.pc = "w_after"
    /\ LET w == Unlocked(wdog)
       IN wdog' = [w EXCEPT !.pc = IF w.unlocked_flag THEN "w_final" ELSE "w_try"]
    /\ UNCHANGED <<ram, iflag, maxmb, initvars, lock, call, sent, quiet, ncalls, nhw, conv,
                   csec, pcc>>

\* if !unlocked(wdog) { return Err(WatchdogError::UnlockFailed); }
ReconfigureFinal ==
    /\ wdog.pc = "w_final"
    /\ LET w == Unlocked(wdog)
       IN wdog' = IF w.unlocked_flag
                  THEN [w EXCEPT !.pc = "w_toval"]
                  ELSE [w EXCEPT !.pc = "done", !.result = "UnlockFailed"]
    /\ UNCHANGED <<ram, iflag, maxmb, initvars, lock, call, sent, quiet, ncalls, nhw, conv,
                   csec, pcc>>

\* apply_settings: the write of one register.  The watchdog takes it only
\* while it is unlocked.
ApplySetting(reg, to) ==
    /\ wdog' = [wdog EXCEPT !.pc = to,
                   !.written = IF wdog.ulk THEN @ \cup {reg} ELSE @,
                   !.log = Append(@, WEv(reg, wdog.ulk))]
    /\ UNCHANGED <<ram, iflag, maxmb, initvars, lock, call, sent, quiet, ncalls, nhw, conv,
                   csec, pcc>>

ReconfigureApply ==
    \/ wdog.pc = "w_toval" /\ ApplySetting("toval", "w_win")
    \/ wdog.pc = "w_win" /\ ApplySetting("win", "w_cs")
    \/ wdog.pc = "w_cs" /\ ApplySetting("cs", "w_wait")

\* while under_configuration(wdog) {} and Ok(()).
ReconfigureWait ==
    /\ wdog.pc = "w_wait"
    /\ wdog.rcs
    /\ wdog' = [wdog EXCEPT !.pc = "done", !.result = "Ok",
                               !.log = Append(@, WEv("read_rcs", TRUE))]
    /\ UNCHANGED <<ram, iflag, maxmb, initvars, lock, call, sent, quiet, ncalls, nhw, conv,
                   csec, pcc>>

\* The watchdog has seen the unlock key: CS.ULK is set and the update window
\* is open.
HwUnlocked ==
    /\ wdog.pending
    /\ wdog' = [wdog EXCEPT !.pending = FALSE, !.ulk = TRUE, !.rcs = FALSE, !.written = {}]
    /\ UNCHANGED <<ram, iflag, maxmb, initvars, lock, call, sent, quiet, ncalls, nhw, conv,
                   csec, pcc>>

\* The update window closes: CS.ULK is cleared, and CS.RCS is set if the
\* configuration was written in the window.
HwWindowCloses ==
    /\ wdog.ulk
    /\ wdog' = [wdog EXCEPT !.ulk = FALSE,
                               !.rcs = @ \/ "cs" \in wdog.written]
    /\ UNCHANGED <<ram, iflag, maxmb, initvars, lock, call, sent, quiet, ncalls, nhw, conv,
                   csec, pcc>>

\* The watchdog in any state of CS.ULK, CS.RCS and CS.UPDATE, and nothing
\* else in use.
WdogInit ==
    /\ IdleCan
    /\ csec = NoCsec
    /\ pcc = NoPcc
    /\ \E ulk \in BOOLEAN : \E rcs \in BOOLEAN : \E update \in BOOLEAN :
          wdog = [NoWdog EXCEPT !.ulk = ulk, !.rcs = rcs, !.update = update]

WdogNext ==
    \/ ReconfigureCall
    \/ ReconfigureEntry
    \/ ReconfigureUnderConfiguration
    \/ ReconfigureUnlock
    \/ ReconfigurePoll
    \/ ReconfigureAfterPoll
    \/ ReconfigureFinal
    \/ ReconfigureApply
    \/ ReconfigureWait
    \/ HwUnlocked
    \/ HwWindowCloses

\* reconfigure beside the watchdog.
WdogSpec == WdogInit /\ [][WdogNext]_vars

\* ------------------------------------------------------------------ Pcc

\* The clock gates Pcc hands out guards for.
Gates == {"portc", "portd", "porte", "lpuart1", "can0"}

ClockSources == {"None", "Soscdiv2", "Sircdiv2", "Fircdiv2", "Splldiv2"}

\* impl From<ClockSource> for u8
ClockSourceBits(cs) ==
    CASE cs = "None"     -> 0
      [] cs = "Soscdiv2" -> 1
      [] cs = "Sircdiv2" -> 2
      [] cs = "Fircdiv2" -> 3
      [] cs = "Splldiv2" -> 6

\* Mutant of EnableResult: the gate bit is not looked at.
EnableResult_IgnoresGate(reg_value) ==
    IF ~reg_value.pr THEN "RegisterNotPresent" ELSE "Ok"

\* What enable_* makes of the register value it has read.
EnableResult(reg_value) ==
    IF ~reg_value.pr THEN "RegisterNotPresent"
    ELSE IF reg_value.cgc THEN "AlreadyEnabled"
    ELSE "Ok"

\* One finished operation of Pcc: the gate, the result, the register before
\* and after, and the number of guards of the gate alive before.
PccOp(op, gate, result, before, after, alive) ==
    [op |-> op, gate |-> gate, result |-> result, before |-> before, after |-> after,
     alive |-> alive]

\* enable_portc, enable_portd, enable_porte, enable_lpuart1(source) and
\* enable_can0, to the read of the register: an Err is returned at once.
EnableRead(gate, source) ==
    /\ pcc.fn = "none"
    /\ source # "None" => gate = "lpuart1"
    /\ LET reg_value == pcc.reg[gate]
           result    == EnableResult(reg_value)
       IN pcc' = IF result = "Ok"
                 THEN [pcc EXCEPT !.fn = "enable", !.pc = "p_modify", !.gate = gate,
                                  !.source = source]
                 ELSE [pcc EXCEPT !.prev = pcc.last,
                                  !.last = PccOp("enable", gate, result, reg_value, reg_value,
                                                 pcc.guards[gate])]
    /\ UNCHANGED <<ram, iflag, maxmb, initvars, lock, call, sent, quiet, ncalls, nhw, conv,
                   csec, wdog>>

\* The modify of the clock source (LPUART1 only) and of the gate bit, and the
\* guard returned.
EnableModify ==
    /\ pcc.pc = "p_modify"
    /\ LET gate   == pcc.gate
           before == pcc.reg[gate]
           after  == [before EXCEPT !.cgc = TRUE,
                                    !.pcs = IF gate = "lpuart1"
                                            THEN ClockSourceBits(pcc.source) ELSE @]
       IN pcc' = [pcc EXCEPT !.fn = "none", !.pc = "idle", !.gate = "none",
                             !.source = "None",
                             !.reg = [@ EXCEPT ![gate] = after],
                             !.guards = [@ EXCEPT ![gate] = @ + 1],
                             !.prev = pcc.last,
                             !.last = PccOp("enable", gate, "Ok", before, after,
                                            pcc.guards[gate])]
    /\ UNCHANGED <<ram, iflag, maxmb, initvars, lock, call, sent, quiet, ncalls, nhw, conv,
                   csec, wdog>>

\* Drop of a guard.
DropGuard(gate) ==
    LET
        \* reg.reset(): the reset value of a PCC register, gate closed and no clock
        \* source; the present bit is read-only.
        ResetValue(reg_value) == [reg_value EXCEPT !.cgc = FALSE, !.pcs = 0]
    IN
    /\ pcc.fn = "none"
    /\ pcc.guards[gate] > 0
    /\ LET before == pcc.reg[gate]
           after  == ResetValue(before)
       IN pcc' = [pcc EXCEPT !.reg = [@ EXCEPT ![gate] = after],
                             !.guards = [@ EXCEPT ![gate] = @ - 1],
                             !.prev = pcc.last,
                             !.last = PccOp("drop", gate, "none", before, after,
                                            pcc.guards[gate])]
    /\ UNCHANGED <<ram, iflag, maxmb, initvars, lock, call, sent, quiet, ncalls, nhw, conv,
                   csec, wdog>>

\* Pcc::init: no guard alive; at most one register is not present, and at
\* most one gate has been opened by code that does not use Pcc.
PccInit ==
    /\ IdleCan
    /\ csec = NoCsec
    /\ wdog = NoWdog
    /\ \E absent \in {{}} \cup {{g} : g \in Gates} :
       \E open \in {{}} \cup {{g} : g \in Gates} :
          pcc = [NoPcc EXCEPT !.reg = [g \in Gates |->
                                          [pr |-> g \notin absent, cgc |-> g \in open,
                                           pcs |-> 0]]]

PccNext ==
    \/ \E gate \in Gates : \E source \in ClockSources : EnableRead(gate, source)
    \/ EnableModify
    \/ \E gate \in Gates : DropGuard(gate)

\* Any sequence of enable calls and guard drops.
PccSpec == PccInit /\ [][PccNext]_vars

\* ------------------------------------------------------------------ claims: transmit

\* The call of the single caller.
Main == call["main"]

Returned(op) == Main.pc = "done" /\ Main.op = op

\* The write accesses of a log, in order.
Writes(log) == SelectSeq(log, LAMBDA e : e.op = "w")

\* The register and address of every access of a log, without the values.
Places(log) == [k \in 1 .. Len(log) |-> <<log[k].reg, log[k].idx>>]

IsInactiveTx(code) == code = TxCode("Inactive")

\* C1: transmit returns Ok having armed the lowest mailbox of 0..=MAXMB whose
\* code read Transmit(Inactive) during the scan (the scan went through the
\* indices in order and stopped there, and the last access is the write of the
\* control word with the code Transmit(DataRemote)); it returns BufferFull if
\* and only if all of 0..=MAXMB were read and none read Transmit(Inactive).
C1_TransmitArmsFirstInactive ==
    Returned("transmit") =>
        /\ Main.result \in {"Ok", "BufferFull"}
        /\ \A j \in 1 .. Len(Main.scanned) : Main.scanned[j].i = j - 1
        /\ Len(Main.scanned) <= maxmb + 1
        /\ Main.result = "Ok" =>
              /\ Len(Main.scanned) = Main.mailbox + 1
              /\ IsInactiveTx(Main.scanned[Main.mailbox + 1].code)
              /\ \A j \in 1 .. Main.mailbox : ~IsInactiveTx(Main.scanned[j].code)
              /\ LET last == Main.log[Len(Main.log)]
                 IN /\ last.op = "w" /\ last.reg = "RAM" /\ last.idx = 4 * Main.mailbox
                    /\ Decode(CodeOf(last.val)) = TxCode("DataRemote")
        /\ Main.result = "BufferFull" <=>
              /\ Len(Main.scanned) = maxmb + 1
              /\ \A j \in 1 .. Len(Main.scanned) : ~IsInactiveTx(Main.scanned[j].code)

\* C1 witness: transmit returned Ok for mailbox 1, having passed over mailbox
\* 0, which held a pending transmission.
C1_Witness ==
    /\ Returned("transmit") /\ Main.result = "Ok" /\ Main.mailbox = 1
    /\ Main.scanned[1].code = TxCode("DataRemote")

\* C2: the writes of one transmit call go to one mailbox only, the one whose
\* code read Transmit(Inactive): its words, and in IFLAG1 the bit of that
\* mailbox alone; a call that returns BufferFull has written nothing.
C2_TransmitWritesOneMailbox ==
    (Main.op = "transmit") =>
        /\ \A k \in 1 .. Len(Main.log) :
              Main.log[k].op = "w" =>
                  /\ IsInactiveTx(Main.scanned[Len(Main.scanned)].code)
                  /\ Main.scanned[Len(Main.scanned)].i = Main.mailbox
                  /\ \/ Main.log[k].reg = "RAM" /\ Main.log[k].idx \div 4 = Main.mailbox
                     \/ Main.log[k].reg = "IFLAG1" /\ Main.log[k].val = {Main.mailbox}
        /\ (Main.pc = "done" /\ Main.result = "BufferFull") => Writes(Main.log) = << >>

\* C2 witness: transmit returned Ok while another mailbox, a receive mailbox
\* with its interrupt flag set, was there to be left alone.
C2_Witness ==
    /\ Returned("transmit") /\ Main.result = "Ok"
    /\ \E m \in Mailboxes :
          /\ m # Main.mailbox /\ m <= maxmb /\ m \in iflag
          /\ Decode(CodeOf(ram[4 * m])).dir = "Receive"

\* The places write_mailbox writes for `frame` in mailbox m, in order.
WritePlaces(m, frame) ==
    << <<"IFLAG1", 0>>, <<"RAM", 4 * m + 1>> >>
        \o [k \in 1 .. DataLength(frame) |-> <<"RAM", 4 * m + 2 + ((k - 1) \div 4)>>]
        \o << <<"RAM", 4 * m>> >>

\* C3: a successful mailbox write writes, in this order, the interrupt flag of
\* the mailbox, the ID word, the data bytes in ascending index and last, once,
\* the control word with the new code; until that write the code of the
\* mailbox stays Transmit(Inactive), and the write is the last access.
C3_WriteOrder ==
    /\ (Main.op = "transmit" /\ Main.pc \in {"w_iflag", "w_id", "w_data", "w_cs"}) =>
          /\ Decode(CodeOf(ram[4 * Main.mailbox])) = TxCode("Inactive")
          /\ LET w == Writes(Main.log)
             IN Places(w) = SubSeq(WritePlaces(Main.mailbox, Main.frame), 1, Len(w))
    /\ (Returned("transmit") /\ Main.result = "Ok") =>
          LET w == Writes(Main.log)
          IN /\ Places(w) = WritePlaces(Main.mailbox, Main.frame)
             /\ w[1].val = {Main.mailbox}
             /\ \A k \in 1 .. DataLength(Main.frame) :
                   GetBits(w[2 + k].val, 32 - 8 * (1 + ((k - 1) % 4)), 32 - 8 * ((k - 1) % 4))
                       = Main.frame.data[k]
             /\ Main.log[Len(Main.log)] = w[Len(w)]
             /\ Decode(CodeOf(w[Len(w)].val)) = TxCode("DataRemote")

\* C3 witness: an eight-byte data frame has been written and the mailbox armed.
C3_Witness ==
    /\ Returned("transmit") /\ Main.result = "Ok"
    /\ Len(Main.frame.data) = 8

\* ------------------------------------------------------------------ claims: receive

\* The positions in the log of a call of its reads of the control word of its mailbox.
CsReads(c) ==
    {k \in 1 .. Len(c.log) :
        c.log[k].op = "r" /\ c.log[k].reg = "RAM" /\ c.log[k].idx = 4 * c.mailbox}

\* The call is in read_mailbox past the busy loop, or has returned its frame.
PastBusyLoop(c) ==
    \/ c.pc \in {"r_id", "r_data", "r_prio", "r_ack", "r_timer"}
    \/ c.pc = "done" /\ c.result = "Frame"

\* C4: receive(m) returns MailboxEmpty exactly when the IFLAG1 value it read
\* has bit m clear, and then that read is its only register access (it wrote
\* nothing) and no mailbox is locked, as before the call.
C4_ReceiveEmptyTouchesNothing ==
    Returned("receive") =>
        /\ Main.log[1].op = "r" /\ Main.log[1].reg = "IFLAG1"
        /\ Main.result = "MailboxEmpty" <=> ~GetBit(Main.log[1].val, Main.mailbox)
        /\ Main.result = "MailboxEmpty" => (Len(Main.log) = 1 /\ lock = {})

\* C4 witness: receive returned MailboxEmpty for a configured mailbox while
\* the flag of another mailbox was set.
C4_Witness ==
    /\ Returned("receive") /\ Main.result = "MailboxEmpty" /\ Main.mailbox <= maxmb
    /\ Main.log[1].val # {} /\ iflag = Main.log[1].val

\* C5: read_mailbox goes on only with a control word that is not a busy
\* receive code: a busy control word is followed by another read of the control
\* word and by nothing else, and every read of an ID or data word comes after
\* the read that gave the non-busy control word the frame is decoded from.
C5_BusyControlWordReread ==
    (Main.op = "receive") =>
        /\ \A k \in 1 .. Len(Main.log) :
              (Main.log[k].reg = "RAM" /\ Main.log[k].idx # 4 * Main.mailbox) =>
                  \E j \in CsReads(Main) :
                      /\ j < k
                      /\ Main.log[j].val = Main.cs
                      /\ ~IsBusy(Decode(CodeOf(Main.log[j].val)))
        /\ \A j \in CsReads(Main) :
              IsBusy(Decode(CodeOf(Main.log[j].val))) =>
                  \/ j = Len(Main.log) /\ Main.pc = "r_busy"
                  \/ j < Len(Main.log) /\ (j + 1) \in CsReads(Main)
        /\ PastBusyLoop(Main) =>
              (CsReads(Main) # {} /\ ~IsBusy(Decode(CodeOf(Main.cs))))

\* C5 witness: receive returned a frame after it had read a busy control word.
C5_Witness ==
    /\ Returned("receive") /\ Main.result = "Frame"
    /\ \E j \in CsReads(Main) : IsBusy(Decode(CodeOf(Main.log[j].val)))

\* C6: a receive(m) that returns a frame has written one register, IFLAG1,
\* with bit m alone; a mailbox whose flag was acknowledged has its flag clear
\* until a controller event; and a receive(m) that follows a receive(m) which
\* returned a frame, with no controller event on m since, returns MailboxEmpty.
C6_AckClearsOwnFlagOnly ==
    /\ (Returned("receive") /\ Main.result = "Frame") =>
          Writes(Main.log) = <<Acc("w", "IFLAG1", 0, {Main.mailbox})>>
    /\ quiet \cap iflag = {}
    /\ (Returned("receive") /\ Main.prevRecv = {Main.mailbox} /\ Main.flagQuiet) =>
          Main.result = "MailboxEmpty"

\* C6 witness: the second of two receives of the same mailbox, with no
\* controller event between them, returned MailboxEmpty.
C6_Witness ==
    /\ Returned("receive") /\ Main.prevRecv = {Main.mailbox} /\ Main.flagQuiet
    /\ Main.result = "MailboxEmpty"

\* The places read_mailbox accesses after the control word, for d data bytes.
ReadPlaces(m, d) ==
    << <<"RAM", 4 * m + 1>> >>
        \o [i \in 1 .. d |-> <<"RAM", 4 * m + 2 + ((i - 1) \div 4)>>]
        \o << <<"RAM", 4 * m + 1>>, <<"IFLAG1", 0>>, <<"TIMER", 0>> >>

\* C7: a receive that returns a frame accesses, in this order, IFLAG1 (read),
\* the control word (one read or more), the ID word, the data words, the ID
\* word, IFLAG1 (the acknowledging write) and last the timer, read once; a
\* full mailbox is locked from the read of its control word on, and no mailbox
\* is locked once the call has returned.
C7_ReceiveOrderTimerLast ==
    /\ (Returned("receive") /\ Main.result = "Frame") =>
          LET log == Main.log
              n   == Cardinality(CsReads(Main))
          IN /\ log[1].op = "r" /\ log[1].reg = "IFLAG1"
             /\ n >= 1 /\ CsReads(Main) = 2 .. (n + 1)
             /\ Places(SubSeq(log, n + 2, Len(log)))
                    = ReadPlaces(Main.mailbox, Len(Main.out.data))
             /\ \A k \in 1 .. Len(log) : log[k].op = "w" <=> k = Len(log) - 1
             /\ Cardinality({k \in 1 .. Len(log) : log[k].reg = "TIMER"}) = 1
    /\ (Main.op = "receive" /\ Main.pc \in {"r_id", "r_data", "r_prio", "r_ack", "r_timer"}
            /\ Decode(CodeOf(Main.cs)).dir = "Receive"
            /\ Decode(CodeOf(Main.cs)).state \in {"Full", "Overrun"}) =>
          Main.mailbox \in lock
    /\ Main.pc \in {"idle", "done"} => lock = {}

\* C7 witness: receive returned a data frame read from a full receive mailbox,
\* which the read of the control word had locked.
C7_Witness ==
    /\ Returned("receive") /\ Main.result = "Frame"
    /\ Decode(CodeOf(Main.cs)).dir = "Receive"
    /\ Decode(CodeOf(Main.cs)).state \in {"Full", "Overrun"}
    /\ Len(Main.out.data) > 0

\* ------------------------------------------------------------------ claims: round trip

\* receive has returned the frame of a mailbox that still holds, untouched
\* but for the end of its transmission, the frame write_mailbox stored in it.
ReadBack ==
    /\ Returned("receive") /\ Main.result = "Frame"
    /\ sent[Main.mailbox] # NoFrame

\* C8: a frame with a base identifier, written into a mailbox by transmit and
\* read back from it by receive, carries the identical identifier, as a base
\* identifier.
C8_BaseIdRoundTrip ==
    (ReadBack /\ ~sent[Main.mailbox].ext) =>
        (Main.out.id = sent[Main.mailbox].id /\ ~Main.out.ext)

\* C9: a frame with a 29-bit extended identifier, written into a mailbox and
\* read back from it, carries exactly the original value, as an extended
\* identifier.
C9_ExtendedIdRoundTrip ==
    (ReadBack /\ sent[Main.mailbox].ext) =>
        (Main.out.id = sent[Main.mailbox].id /\ Main.out.ext)

\* C10: while a mailbox holds a written frame, byte i of the frame is in bits
\* 32-8*(1+i%4) .. 32-8*(i%4) of word 2+i/4 of the mailbox, the DLC field is
\* the length (0 for a remote frame) and the remote flag tells the kind; the
\* frame read back has the same kind, the same length and the same bytes.
C10_PayloadRoundTrip ==
    /\ \A m \in Mailboxes :
          sent[m] # NoFrame =>
              /\ \A i \in 0 .. (Len(sent[m].data) - 1) :
                    GetBits(ram[4 * m + 2 + (i \div 4)],
                            32 - 8 * (1 + (i % 4)), 32 - 8 * (i % 4))
                        = sent[m].data[i + 1]
              /\ GetBits(ram[4 * m], 16, 20) = Len(sent[m].data)
              /\ GetBit(ram[4 * m], 20) <=> sent[m].kind = "Remote"
              /\ sent[m].kind = "Remote" => Len(sent[m].data) = 0
    /\ ReadBack =>
          /\ Main.out.kind = sent[Main.mailbox].kind
          /\ Main.out.data = sent[Main.mailbox].data

\* C10 witness: a data frame of more than four bytes has been read back.
C10_Witness ==
    /\ ReadBack
    /\ Main.out.kind = "Data" /\ Len(Main.out.data) > 4

\* ------------------------------------------------------------------ claims: bit timing

\* The panic of the last branch of the table lookup.
TqsPanic == "there should be between 8 and 25 tqs in an bit"

\* Can::init is past its two checks: they have accepted the settings.
Accepted ==
    /\ icall.pc \notin {"idle", "i_divisible", "i_minimum"}
    /\ ~(icall.pc = "done" /\ icall.result = "SettingsError")
    /\ icall.panic \notin {"remainder by zero", "multiply with overflow"}

\* Can::init has derived presdiv, tqs and the segment values.
Derived == Accepted /\ icall.pc # "i_timing" /\ icall.panic # TqsPanic

\* C11, as the spec has it: the segment values derived by init satisfy
\* propseg + pseg1 + pseg2 + 3 = tqs.
C11_SegmentsSumPlus3 ==
    Derived => icall.seg.propseg + icall.seg.pseg1 + icall.seg.pseg2 + 3 = icall.tqs

\* C11, amended: for every pair that satisfies the two preconditions, the
\* segment values derived by init satisfy propseg + pseg1 + pseg2 + 4 = tqs
\* (the synchronisation quantum and one quantum more than the register value
\* for each of the three segments), where tqs = (source/(presdiv+1))/can and
\* presdiv = (source/can)/25.
C11_SegmentsSumPlus4 ==
    Derived =>
        /\ icall.seg.propseg + icall.seg.pseg1 + icall.seg.pseg2 + 4 = icall.tqs
        /\ icall.presdiv = (icall.source \div icall.can) \div 25
        /\ icall.tqs = (icall.source \div (icall.presdiv + 1)) \div icall.can

\* C11 witness: init has derived the segments for a ratio that needs a prescaler.
C11_Witness == Derived /\ icall.presdiv = 1 /\ icall.tqs = 13

\* C12: for every pair that passes the two checks of init the derived tqs lies
\* in [8,26): init never reaches the fatal branch of the table lookup.
C12_AcceptedTqsInTable ==
    Accepted => (icall.panic # TqsPanic /\ (Derived => icall.tqs \in 8 .. 25))

\* The timing write of Can::init has been made.
TimingWritten ==
    \E k \in 1 .. Len(icall.log) :
        icall.log[k].op = "w" /\ icall.log[k].reg = "CTRL1"
            /\ "presdiv" \in icall.log[k].fields

\* C13: the prescaler that init writes to the 8-bit PRESDIV field equals the
\* computed (source/can)/25 and does not exceed 255.
C13_PrescalerNotTruncated ==
    TimingWritten =>
        /\ ctrl1.presdiv = (icall.source \div icall.can) \div 25
        /\ ctrl1.presdiv <= 255

\* C14: for every tqs in 8..=25 the table lookup and the segment formulas give
\* pseg2 in 1..=7, rjw in 1..=3, pseg1 in 0..=7 and propseg in 0..=7, with no
\* subtraction below zero on the way.
C14_SegmentsFitFields ==
    (conv.fn = "segments" /\ conv.pc # "segments" /\ conv.tqs \in 8 .. 25) =>
        /\ conv.pc = "done"
        /\ conv.seg.pseg2 \in 1 .. 7
        /\ conv.seg.rjw \in 1 .. 3
        /\ conv.seg.pseg1 \in 0 .. 7
        /\ conv.seg.propseg \in 0 .. 7
        /\ conv.tqs - (conv.seg.pseg2 + 1) >= 2
        /\ conv.tqs - (conv.seg.pseg2 + 1) - (conv.seg.pseg1 + 1) >= 2

\* C14 witness: the segments have been derived for 25 time quanta.
C14_Witness == conv.fn = "segments" /\ conv.pc = "done" /\ conv.tqs = 25

\* ------------------------------------------------------------------ claims: the checks of init

\* C15: init returns Err(SettingsError), and does not abort, whenever
\* source_frequency % can_frequency != 0 or source_frequency < 5 x can_frequency.
C15_InvalidRatioIsSettingsError ==
    (/\ icall.pc \notin {"idle", "i_divisible", "i_minimum"}
     /\ icall.can > 0
     /\ \/ icall.source % icall.can # 0
        \/ icall.source \div 5 < icall.can) =>
        (icall.pc = "done" /\ icall.result = "SettingsError")

\* C16: whenever init returns SettingsError it has made no register access:
\* MCR, CTRL1, RXMGMASK, IFLAG1 and every mailbox word are as before the call.
C16_SettingsErrorTouchesNothing ==
    (icall.pc = "done" /\ icall.result = "SettingsError") =>
        /\ icall.log = << >>
        /\ mcr = icall.before.mcr
        /\ maxmb = icall.before.maxmb
        /\ ctrl1 = icall.before.ctrl1
        /\ rxmgmask = icall.before.rxmgmask
        /\ iflag = icall.before.iflag
        /\ ram = icall.before.ram

\* C16 witness: init has returned SettingsError for a running controller and
\* a source frequency that the bit rate does not divide.
C16_Witness ==
    /\ icall.pc = "done" /\ icall.result = "SettingsError"
    /\ icall.before.mcr = McrRunning
    /\ icall.source % icall.can # 0

\* ------------------------------------------------------------------ claims: the mailbox code

\* C17: decode(encode(c)) = c for every MessageBufferCode c.
C17_DecodeEncode ==
    (conv.fn = "encode" /\ conv.pc \notin {"encode", "decode"}) =>
        (conv.pc = "done" /\ conv.code = conv.code0)

\* C17 witness: a busy receive code has been encoded and decoded again.
C17_Witness ==
    conv.fn = "encode" /\ conv.pc = "done" /\ conv.code0 = RxCode("Ranswer", TRUE)

\* C18: each of the 16 patterns of the CODE field decodes to a
\* MessageBufferCode, without a fatal error.
C18_DecodeTotal ==
    conv.fn = "decode" => conv.pc # "panicked"

\* The patterns decode has no arm for.
Reserved == {x \in Patterns : Decode(x) = PanicCode}

\* encode gives different patterns for different codes.
EncodeInjective == \A c, d \in Codes : Encode(c) = Encode(d) => c = d

\* C19, as the spec has it: encode is injective and exactly one of the sixteen
\* patterns is reserved; every other pattern decodes, and encodes back to itself.
C19_OneReservedPattern ==
    /\ EncodeInjective
    /\ Cardinality(Reserved) = 1
    /\ (conv.fn = "decode" /\ conv.pc \notin {"decode", "encode"}) =>
          (IF conv.pattern0 \in Reserved
           THEN conv.pc = "panicked"
           ELSE conv.pc = "done" /\ conv.pattern = conv.pattern0)

\* C19, amended: encode is injective and exactly two of the sixteen patterns,
\* 0b1101 and 0b1111, are reserved: for every other pattern x decode(x)
\* succeeds and encode(decode(x)) = x, and decode fails on these two only.
C19_TwoReservedPatterns ==
    /\ EncodeInjective
    /\ Reserved = {13, 15}
    /\ (conv.fn = "decode" /\ conv.pc \notin {"decode", "encode"}) =>
          (IF conv.pattern0 \in {13, 15}
           THEN conv.pc = "panicked"
           ELSE conv.pc = "done" /\ conv.pattern = conv.pattern0)

\* C19 witness: the decoding of 0b1111 has ended in the panic.
C19_Witness == conv.fn = "decode" /\ conv.pc = "panicked" /\ conv.pattern0 = 15

\* ------------------------------------------------------------------ claims: freeze mode

\* A write of init that configures the controller: the global configuration
\* fields of MCR, the timing fields and the loop-back bit of CTRL1, the
\* receive mask or a mailbox word.
ConfigWrite(e) ==
    /\ e.op = "w"
    /\ \/ e.reg \in {"RXMGMASK", "RAM"}
       \/ e.reg = "MCR"
            /\ e.fields \cap {"rfen", "srxdis", "irmq", "aen", "dma", "maxmb"} # {}
       \/ e.reg = "CTRL1"
            /\ e.fields \cap {"presdiv", "pseg1", "pseg2", "propseg", "rjw", "lpb"} # {}

\* The accesses of reset(can) and enable(can), as the log of init has them.
ResetAndEnable ==
    LET rd(bit, v) == InitAcc("r", "MCR", 0, {}, [f \in {bit} |-> v])
        md(reg)    == InitAcc("r", reg, 0, {}, << >>)
        wr(reg, field, v) == InitAcc("w", reg, 0, {field}, [f \in {field} |-> v])
    IN << md("MCR"), wr("MCR", "mdis", TRUE), rd("lpmack", TRUE),
          md("CTRL1"), wr("CTRL1", "clksrc", TRUE),
          md("MCR"), wr("MCR", "mdis", FALSE), rd("lpmack", FALSE),
          md("MCR"), wr("MCR", "softrst", TRUE), rd("softrst", FALSE),
          md("MCR"), wr("MCR", "mdis", TRUE), rd("lpmack", TRUE),
          md("CTRL1"),
          wr("CTRL1", "clksrc", ClockSourceBit(icall.settings.clock_source)),
          md("MCR"), wr("MCR", "mdis", FALSE), rd("lpmack", FALSE) >>

\* The accesses of enter_freeze(can).
EnterFreeze ==
    << InitAcc("r", "MCR", 0, {}, << >>),
       InitAcc("w", "MCR", 0, {"frz", "halt"}, [frz |-> TRUE, halt |-> TRUE]),
       InitAcc("r", "MCR", 0, {}, [f \in {"frzack"} |-> TRUE]) >>

\* The write of leave_freeze(can).
IsLeaveFreeze(e) == e.op = "w" /\ e.reg = "MCR" /\ "frz" \in e.fields

\* C20: every write of init to the global configuration fields, to the timing
\* fields and the loop-back bit, to the receive mask and to a mailbox word
\* comes after reset and enable have completed and the freeze acknowledgment
\* has been read as set, and before the write that leaves freeze; and the
\* controller is frozen (freeze, halt and the acknowledgment set, not
\* disabled) whenever init is at one of these writes.
C20_ConfiguredWhileFrozen ==
    LET log   == icall.log
        n     == Len(ResetAndEnable) + Len(EnterFreeze)
    IN /\ \A k \in 1 .. Len(log) :
             ConfigWrite(log[k]) =>
                 /\ k > n
                 /\ SubSeq(log, 1, n) = ResetAndEnable \o EnterFreeze
                 /\ \A j \in (n + 1) .. k : ~IsLeaveFreeze(log[j])
       /\ icall.pc \in {"i_mcr", "i_ctrl1", "i_rxmgmask", "i_inactivate", "i_write"} =>
             (mcr.frz /\ mcr.halt /\ mcr.frzack /\ ~mcr.mdis /\ ~mcr.lpmack)

\* C20 witness: init has returned Ok, having written as many mailboxes as
\* there can be, for a controller that was disabled at the call.
C20_Witness ==
    /\ icall.pc = "done" /\ icall.result = "Ok"
    /\ HeaderCount = MaxMB
    /\ icall.before.mcr = McrDisabled
    /\ \E k \in 1 .. Len(icall.log) : icall.log[k].reg = "RAM" /\ icall.log[k].op = "w"

\* ------------------------------------------------------------------ claims: the mode sequence

\* Entry k of the log of init is the write of `v` to the MCR field `field`.
ModeWrite(k, field, v) ==
    Len(icall.log) >= k =>
        icall.log[k] = InitAcc("w", "MCR", 0, {field}, [f \in {field} |-> v])

\* Entry k of the log of init is the read that ends a wait: MCR read with
\* `bit` at `v`.
WaitRead(k, bit, v) ==
    Len(icall.log) >= k =>
        icall.log[k] = InitAcc("r", "MCR", 0, {}, [f \in {bit} |-> v])

\* C21, as the spec has it: in reset the driver goes on after asserting
\* module disable once the low power acknowledgment reads clear, after
\* clearing it once the acknowledgment reads set, after the soft reset once
\* the bit reads clear, and after asserting module disable again once the
\* acknowledgment reads clear.
C21_ResetWaitsAsWorded ==
    /\ ModeWrite(2, "mdis", TRUE)     /\ WaitRead(3, "lpmack", FALSE)
    /\ ModeWrite(7, "mdis", FALSE)    /\ WaitRead(8, "lpmack", TRUE)
    /\ ModeWrite(10, "softrst", TRUE) /\ WaitRead(11, "softrst", FALSE)
    /\ ModeWrite(13, "mdis", TRUE)    /\ WaitRead(14, "lpmack", FALSE)

\* C21, amended: in reset the driver goes on after asserting module disable
\* only once the low power acknowledgment reads set, after clearing module
\* disable only once the acknowledgment reads clear, after triggering the soft
\* reset only once the soft reset bit has cleared itself, and after asserting
\* module disable again only once the acknowledgment reads set; at each of
\* these points the register holds what the wait has read.
C21_ResetWaitsFollowRequest ==
    /\ ModeWrite(2, "mdis", TRUE)     /\ WaitRead(3, "lpmack", TRUE)
    /\ ModeWrite(7, "mdis", FALSE)    /\ WaitRead(8, "lpmack", FALSE)
    /\ ModeWrite(10, "softrst", TRUE) /\ WaitRead(11, "softrst", FALSE)
    /\ ModeWrite(13, "mdis", TRUE)    /\ WaitRead(14, "lpmack", TRUE)
    /\ icall.pc = "reset_clksrc" => (mcr.mdis /\ mcr.lpmack)
    /\ icall.pc = "reset_softrst" => (~mcr.mdis /\ ~mcr.lpmack)
    /\ icall.pc = "reset_mdis_again" => ~mcr.softrst
    /\ icall.pc = "i_clksrc" => (mcr.mdis /\ mcr.lpmack)

\* C21 witness: reset has come to its end for a controller that was running
\* at the call, so that the first wait had to wait for the acknowledgment.
C21_Witness ==
    /\ icall.pc = "i_clksrc"
    /\ Len(icall.log) = 14
    /\ icall.before.mcr = McrRunning

\* The controller is disabled: module disable is set, the low power
\* acknowledgment is set, and the last access of init is the read that found
\* it set.
DisabledAndObserved ==
    /\ mcr.mdis /\ mcr.lpmack
    /\ Len(icall.log) > 0
    /\ icall.log[Len(icall.log)] = InitAcc("r", "MCR", 0, {}, [f \in {"lpmack"} |-> TRUE])

\* The controller is in freeze mode.
Frozen == mcr.frz /\ mcr.halt /\ mcr.frzack /\ ~mcr.mdis /\ ~mcr.lpmack

\* C22: the clock source field of CTRL1 changes value only while the
\* controller is disabled, module disable set and the low power acknowledgment
\* observed set; the write inside reset and the write of settings.clock_source
\* in init are made in that state; and the timing write, made in freeze mode,
\* leaves the field equal to settings.clock_source.
C22_ClockSourceWhileDisabled ==
    [][/\ ctrl1'.clksrc # ctrl1.clksrc => DisabledAndObserved
       /\ (icall.pc \in {"reset_clksrc", "i_clksrc"} /\ icall'.pc # icall.pc) =>
             DisabledAndObserved
       /\ (icall.pc = "i_clksrc" /\ icall'.pc # icall.pc) =>
             ctrl1'.clksrc = ClockSourceBit(icall.settings.clock_source)
       /\ (icall.pc = "i_ctrl1" /\ icall'.pc # icall.pc) =>
             /\ Frozen
             /\ ctrl1'.presdiv = PresdivField(icall.presdiv)
             /\ ctrl1'.clksrc = ClockSourceBit(icall.settings.clock_source)]_vars

\* C22 witness: init has returned Ok with the peripheral clock selected, the
\* timing write made, for a clock source field that was clear at the call.
C22_Witness ==
    /\ icall.pc = "done" /\ icall.result = "Ok"
    /\ icall.settings.clock_source = "Peripheral"
    /\ ~icall.before.ctrl1.clksrc /\ ctrl1.clksrc
    /\ TimingWritten

\* The settings of the call satisfy the two preconditions of init.
ValidSettings ==
    /\ icall.can > 0
    /\ icall.source % icall.can = 0
    /\ icall.source \div 5 >= icall.can

\* The controller is running: enabled, neither frozen nor halted, and the
\* freeze acknowledgment clear.
Running == ~mcr.mdis /\ ~mcr.frz /\ ~mcr.halt /\ ~mcr.frzack

\* C23: beside a controller that eventually answers every mode request, a call
\* of init with valid settings eventually returns Ok with the controller
\* running.
C23_InitReturnsRunning ==
    (icall.pc = "i_divisible" /\ ValidSettings) ~>
        (icall.pc = "done" /\ icall.result = "Ok" /\ Running)

\* ------------------------------------------------------------------ claims: the mailboxes of init

\* The global configuration write of init, with MAXMB, has been made.
MaxmbWritten ==
    \E k \in 1 .. Len(icall.log) :
        icall.log[k].op = "w" /\ icall.log[k].reg = "MCR" /\ "maxmb" \in icall.log[k].fields

\* C24: for every sequence of mailbox headers, the empty one too, init writes
\* MAXMB as length - 1 without aborting in the subtraction, and the scan of a
\* later transmit, over 0 .. MAXMB, covers exactly the indices 0 ..= length - 1.
C24_MaxmbIsLengthMinusOne ==
    /\ icall.panic # "subtract with overflow"
    /\ MaxmbWritten =>
          /\ maxmb = HeaderCount - 1
          /\ 0 .. (ActiveMailboxes(maxmb) - 1) = 0 .. (HeaderCount - 1)

\* C25: whatever code each mailbox held before the call, init does not abort
\* while it initialises the mailboxes, and when it has returned Ok the control
\* word of every mailbox i < length holds the code of the i-th header.
C25_InitOverwritesAnyCode ==
    /\ icall.panic \notin {"is not a valid MessageBufferCode",
                          "unwrap on BusyMailboxWriteAttempted"}
    /\ (icall.pc = "done" /\ icall.result = "Ok") =>
          \A i \in DOMAIN icall.headers :
              Decode(CodeOf(ram[4 * i])) = icall.headers[i].code

\* ------------------------------------------------------------------ claims: two callers

\* Caller p is in the write sequence of write_mailbox: past the check of the
\* code, before the return.
Writing(p) == call[p].pc \in {"w_iflag", "w_id", "w_data", "w_cs"}

\* The words of mailbox m that the call of p has written so far.
WrittenWords(p, m) ==
    {call[p].log[k].idx : k \in {j \in 1 .. Len(call[p].log) :
        /\ call[p].log[j].op = "w"
        /\ call[p].log[j].reg = "RAM"
        /\ call[p].log[j].idx \div 4 = m}}

\* C26: when two transmit calls interleave at single register accesses they
\* are never both in the write sequence of one mailbox, and a mailbox whose
\* words one unfinished call has written is not written by the other.
C26_NoInterleavedMailboxWrites ==
    \A p, q \in Procs :
        (p # q /\ call[p].op = "transmit" /\ call[q].op = "transmit" /\ Writing(p)) =>
            /\ Writing(q) => call[q].mailbox # call[p].mailbox
            /\ WrittenWords(q, call[p].mailbox) = {}

\* A receive call of p holds a control word that read as a full mailbox, and
\* has not yet reached its own read of the timer.
ReadingFull(p) ==
    /\ call[p].op = "receive"
    /\ call[p].pc \in {"r_id", "r_data", "r_prio", "r_ack", "r_timer"}
    /\ LockOnRead({}, call[p].mailbox, call[p].cs) = {call[p].mailbox}

\* The call of q is a transmit that has touched no word of mailbox m.
TransmitElsewhere(q, m) ==
    /\ call[q].op = "transmit"
    /\ \A k \in 1 .. Len(call[q].log) :
          call[q].log[k].reg = "RAM" => call[q].log[k].idx \div 4 # m

\* C27: the lock that receive(j) engages by its read of the control word of
\* mailbox j stays engaged until receive(j) reads the timer itself, whatever
\* an interleaved transmit on other mailbox indices does; the mailbox still
\* holds the control word that receive(j) has read.
C27_ReceiveLockHeld ==
    \A p, q \in Procs :
        (p # q /\ ReadingFull(p) /\ TransmitElsewhere(q, call[p].mailbox)) =>
            /\ call[p].mailbox \in lock
            /\ ram[4 * call[p].mailbox] = call[p].cs

\* ------------------------------------------------------------------ claims: errors of transmit and receive

\* The scan of the transmit call has met a mailbox whose code is neither
\* Transmit(Inactive) nor Transmit(DataRemote).
MetMismatch ==
    \E j \in 1 .. Len(Main.scanned) :
        Main.scanned[j].code \notin {TxCode("Inactive"), TxCode("DataRemote")}

\* C28: a transmit call that has met a mailbox whose code is neither Inactive
\* nor a pending transmission returns a configuration mismatch error, which is
\* not BufferFull; the mailbox is not passed over in silence.
C28_MismatchSurfaced ==
    (Returned("transmit") /\ MetMismatch) =>
        Main.result = "MailboxConfigurationError"

\* C29: the busy retry of receive is capped: a receive call that re-reads the
\* control word of a busy mailbox leaves the loop after a bounded number of
\* re-reads, also when the controller keeps the busy bit set.
C29_BusyRetryEnds ==
    (Main.op = "receive" /\ Main.pc = "r_busy") ~> (Main.pc # "r_busy")

\* C30: for every DLC 0..=15 that a control word can hold, receive builds a
\* frame: it does not abort on the DLC, the payload of the frame has at most
\* 8 bytes, and the call has read no mailbox word but those of the addressed
\* mailbox.
C30_AnyDlcGivesFrame ==
    /\ (Main.op = "receive" /\ Main.pc = "panicked") =>
          Decode(CodeOf(Main.cs)) = PanicCode
    /\ (Returned("receive") /\ Main.result = "Frame") =>
          /\ Len(Main.out.data) <= 8
          /\ \A k \in 1 .. Len(Main.log) :
                Main.log[k].reg = "RAM" =>
                    Main.log[k].idx \in (4 * Main.mailbox) .. (4 * Main.mailbox + 3)

\* ------------------------------------------------------------------ claims: abort_mailbox

\* The interrupt flags as abort_mailbox read them last.
LastFlagRead == Main.log[Len(Main.log)]

\* C31: abort_mailbox on a mailbox whose code is Transmit(DataRemote) clears
\* the interrupt flag of the mailbox, then writes the code Transmit(Abort),
\* and returns only once it has read the interrupt flag of the mailbox as set
\* by the controller; on a mailbox with any other code it writes no register.
C31_AbortWaitsForFlag ==
    Returned("abort") =>
        IF Decode(Main.code) = TxCode("DataRemote")
        THEN /\ Writes(Main.log) =
                   << Acc("w", "IFLAG1", 0, FlagMask(Main.mailbox)),
                      Acc("w", "RAM", 4 * Main.mailbox, AbortWord) >>
             /\ LastFlagRead.op = "r" /\ LastFlagRead.reg = "IFLAG1"
             /\ GetBit(LastFlagRead.val, Main.mailbox)
        ELSE Writes(Main.log) = << >>

\* ------------------------------------------------------------------ claims: the arithmetic of init

\* C32: for every pair (source_frequency, can_frequency), can_frequency = 0
\* and a 5 x can_frequency past 2^32 - 1 included, the two checks at the start
\* of init end in SettingsError or in acceptance and never in an abort through
\* a division by zero or an arithmetic overflow; and where the product wraps,
\* no pair with source_frequency < 5 x can_frequency is accepted.
C32_ValidationNeverAborts ==
    /\ icall.panic \notin {"remainder by zero", "multiply with overflow"}
    /\ Accepted => ~(icall.source \div 5 < icall.can)

\* C33: for every pair accepted by init the configured bit time reproduces the
\* target bit rate exactly: (presdiv + 1) x tqs = source_frequency /
\* can_frequency, with the prescaler as written to CTRL1.PRESDIV.
C33_BitTimeIsExact ==
    (Derived /\ icall.can > 0) =>
        /\ (icall.presdiv + 1) * icall.tqs = icall.source \div icall.can
        /\ TimingWritten =>
              (ctrl1.presdiv + 1) * icall.tqs = icall.source \div icall.can

\* ------------------------------------------------------------------ claims: inactivate_mailbox

\* The code mailbox i held before the call of init.
PriorCode(i) == Decode(CodeOf(icall.before.ram[4 * i]))

\* C34: inactivate_mailbox keeps the direction of the mailbox and leaves the
\* code Inactive (a transmit code becomes Transmit(Inactive), a receive code
\* Receive{Inactive, busy: false}), so that the write_mailbox call that
\* follows it in init is accepted whatever decodable code the mailbox held,
\* and its unwrap never fails.
C34_InactivateKeepsDirection ==
    /\ icall.panic # "unwrap on BusyMailboxWriteAttempted"
    /\ icall.pc = "i_write" =>
          LET now == Decode(CodeOf(ram[4 * icall.mb]))
          IN /\ PriorCode(icall.mb) # PanicCode
             /\ PriorCode(icall.mb).dir = "Transmit" => now = TxCode("Inactive")
             /\ PriorCode(icall.mb).dir = "Receive" => now = RxCode("Inactive", FALSE)
             /\ ~WriteRefused(now)
    /\ \A i \in DOMAIN icall.headers :
          (i < icall.mb /\ icall.pc # "idle") =>
              Decode(CodeOf(ram[4 * i])) = icall.headers[i].code

\* C34 witness: a mailbox that held Receive{Full, busy} before the call has
\* been inactivated and then written by init.
C34_Witness ==
    /\ icall.pc \in {"i_inactivate", "leave_clear"}
    /\ icall.mb >= 1
    /\ PriorCode(0) = RxCode("Full", TRUE)

\* ------------------------------------------------------------------ claims: CSEc

\* The half of the 32-bit word at `offset` that a halfword access at `offset`
\* does not address.
OtherHalf(word, offset) ==
    IF (offset \div 2) % 2 # 0 THEN GetBits(word, 16, 32) ELSE GetBits(word, 0, 16)

\* C35: for every 16-bit aligned offset of the parameter RAM and every
\* halfword h, write_command_halfword(offset, h) followed by
\* read_command_halfword(offset) returns h, and the other halfword of the same
\* 32-bit word is as before; for offset % 4 = 0 as for offset % 4 = 2.
C35_HalfwordRoundTrip ==
    (csec.fn = "halfword" /\ csec.pc = "done") =>
        /\ csec.out = csec.halfword
        /\ OtherHalf(csec.pram[csec.offset \div 4], csec.offset)
              = OtherHalf(csec.before, csec.offset)

\* The log of a call of handle_cbc from its first round on: round k is the
\* write at 3k, the command at 3k + 1 and the read at 3k + 2.
RoundEvent(i) == csec.log[i]

\* C36: for a buffer whose length is a positive multiple of 16, encrypt_cbc
\* and decrypt_cbc issue commands that cover every 16-byte block of the buffer
\* once and in order: the first command is marked First and carries at most 6
\* pages placed from page 2, every later one is marked Subsequent and carries
\* at most 7 pages placed from page 1; the result of each command is copied
\* back over the buffer range the command was given; after a command that
\* reports an error nothing more is done; and a buffer whose length 16 does
\* not divide is rejected with GeneralError before anything is written.
C36_CbcCoversBufferInOrder ==
    csec.fn = "cbc" =>
        /\ csec.len % 16 # 0 =>
              /\ csec.log = << >>
              /\ csec.pc \in {"c_check", "done"}
              /\ csec.pc = "done" => csec.result = "GeneralError"
        /\ \A i \in 3 .. Len(csec.log) :
              LET e == RoundEvent(i)
              IN csec.len = 0 \/
                 CASE i % 3 = 0 ->
                        /\ e.op = "write"
                        /\ e.n > 0 /\ e.n % PAGE_SIZE_IN_BYTES = 0
                        /\ e.from = IF i = 3 THEN 0
                                    ELSE RoundEvent(i - 3).from + RoundEvent(i - 3).n
                        /\ e.from + e.n <= csec.len
                        /\ e.offset = IF i = 3 THEN 2 * PAGE_SIZE_IN_BYTES
                                      ELSE PAGE_SIZE_IN_BYTES
                        /\ e.n <= (IF i = 3 THEN 6 ELSE 7) * PAGE_SIZE_IN_BYTES
                   [] i % 3 = 1 ->
                        /\ e.op = "command"
                        /\ e.seq = IF i = 4 THEN "First" ELSE "Subsequent"
                   [] OTHER ->
                        /\ e.op = "read"
                        /\ e.offset = RoundEvent(i - 2).offset
                        /\ e.from = RoundEvent(i - 2).from
                        /\ e.n = RoundEvent(i - 2).n
        /\ (csec.pc = "done" /\ csec.result = "Ok" /\ csec.len > 0) =>
              /\ RoundEvent(Len(csec.log)).op = "read"
              /\ RoundEvent(Len(csec.log)).from + RoundEvent(Len(csec.log)).n = csec.len
              /\ \A k \in DOMAIN csec.buffer : csec.buffer[k] = Out(k)
        /\ (csec.pc \in {"done", "panicked"} /\ csec.result \notin {"Ok", "GeneralError"}) =>
              /\ RoundEvent(Len(csec.log)).op = "command"
              /\ \A k \in DOMAIN csec.buffer :
                    k > RoundEvent(Len(csec.log) - 1).from \div PAGE_SIZE_IN_BYTES
                        => csec.buffer[k] = In(k)

\* C36 witness: a buffer of 14 blocks has been processed by three commands
\* (6, 7 and 1 pages) and the call has returned Ok.
C36_Witness ==
    /\ csec.fn = "cbc" /\ csec.pc = "done" /\ csec.result = "Ok"
    /\ csec.len = 14 * PAGE_SIZE_IN_BYTES
    /\ Len(csec.log) = 11
    /\ RoundEvent(6).n = 7 * PAGE_SIZE_IN_BYTES
    /\ RoundEvent(9).n = PAGE_SIZE_IN_BYTES

\* The positions of the events of one kind in the log of a call of verify_mac.
MacEvents(op) == {i \in 1 .. Len(csec.log) : csec.log[i].op = op}

\* C37: verify_mac writes the expected CMAC at most once, and exactly once in
\* a call that returns Ok: in the round whose message bytes end the message,
\* after those bytes, at the first page boundary at or after their end and
\* inside the parameter RAM, and no message byte is written after it.  The
\* rounds carry the message in order in pieces of at most 7 pages, the first
\* command is marked First and every later one Subsequent.  The boolean
\* returned is the verification status read after the command of the round
\* that wrote the CMAC, and the number of rounds is bounded by the length of
\* the message (one round per 112 bytes and at most one more), so the
\* recursion ends; a command that reports an error ends the call at once.
C37_VerifyMacWritesCmacLast ==
    csec.fn = "mac" =>
        LET log      == csec.log
            writes   == MacEvents("write")
            cmacs    == MacEvents("cmac")
            commands == MacEvents("command")
        IN /\ Cardinality(cmacs) <= 1
           /\ csec.len = 0 => log = << >>
           /\ \A i \in cmacs :
                 /\ i > 1 /\ log[i - 1].op = "write"
                 /\ log[i - 1].from + log[i - 1].n = csec.len
                 /\ log[i].offset % PAGE_SIZE_IN_BYTES = 0
                 /\ log[i].offset >= PAGE_1_OFFSET + log[i - 1].n
                 /\ log[i].offset < PAGE_1_OFFSET + log[i - 1].n + PAGE_SIZE_IN_BYTES
                 /\ log[i].offset + log[i].n <= (MAX_PAGES + 1) * PAGE_SIZE_IN_BYTES
                 /\ \A j \in writes : j < i
                 /\ \A j \in commands : j > i => j = i + 1
           /\ \A i \in writes :
                 /\ log[i].n <= MAX_PAGES * PAGE_SIZE_IN_BYTES
                 /\ log[i].offset = PAGE_1_OFFSET
                 /\ log[i].from + log[i].n <= csec.len
                 /\ log[i].from =
                       IF \E j \in writes : j < i
                       THEN LET j == CHOOSE j \in writes :
                                        j < i /\ \A k \in writes : k < i => k <= j
                            IN log[j].from + log[j].n
                       ELSE 0
                 /\ Cardinality({j \in commands : j < i})
                       = Cardinality({j \in writes : j < i})
           /\ \A i \in commands :
                 /\ log[i].seq = IF \E j \in commands : j < i THEN "Subsequent" ELSE "First"
                 /\ \E j \in writes : j < i
           /\ Cardinality(commands)
                 <= (csec.len + MAX_PAGES * PAGE_SIZE_IN_BYTES - 1)
                       \div (MAX_PAGES * PAGE_SIZE_IN_BYTES) + 1
           /\ csec.pc = "done" /\ csec.result # "GeneralError"  =>
                 \/ /\ csec.result # "Ok"
                    /\ log[Len(log)].op = "command"
                 \/ /\ csec.result = "Ok"
                    /\ Cardinality(cmacs) = 1
                    /\ log[Len(log)].op = "status"
                    /\ log[Len(log) - 1].op = "command"
                    /\ log[Len(log) - 2].op = "cmac"
                    /\ csec.success
                          = (GetBits(csec.pram[MAC_VERIFICATION_BITS_OFFSET \div 4], 16, 32) = 0)
           /\ csec.pc = "done" /\ csec.result = "GeneralError" /\ csec.len > 0 =>
                 log[Len(log)].op = "command"

\* C37 witness: a message of 200 bytes has been verified in three rounds (112
\* bytes, 88 bytes, and the CMAC alone in page 1) and the call has returned
\* Ok(true).
C37_Witness ==
    /\ csec.fn = "mac" /\ csec.pc = "done" /\ csec.result = "Ok"
    /\ csec.len = 200
    /\ Cardinality(MacEvents("command")) = 3
    /\ \E i \in MacEvents("cmac") : csec.log[i].offset = PAGE_SIZE_IN_BYTES
    /\ csec.success

\* ------------------------------------------------------------------ claims: the watchdog

\* The positions of the accesses of some kinds in the log of a call of
\* reconfigure.
WdogEvents(ops) == {i \in 1 .. Len(wdog.log) : wdog.log[i].op \in ops}

\* CS.ULK has been read as set at some position of the log.
ReadAsSet == \E j \in WdogEvents({"read_ulk"}) : wdog.log[j].val

\* C38: reconfigure writes TOVAL, WIN and CS only after it has read CS.ULK as
\* set.  When its first read of CS.ULK gives clear and its read of CS.RCS
\* gives clear, it returns ReconfigurationDisallowed and has written no
\* register, the unlock key included.  When it has written the unlock key
\* three times and never read CS.ULK as set, it returns UnlockFailed and has
\* not written the configuration.
C38_ConfigurationOnlyWhenUnlocked ==
    wdog.fn = "reconfigure" =>
        LET log == wdog.log
        IN /\ \A i \in WdogEvents(ConfigRegisters) :
                 \E j \in WdogEvents({"read_ulk"}) : j < i /\ log[j].val
           /\ (Len(log) >= 2 /\ log[1] = WEv("read_ulk", FALSE)
                             /\ log[2] = WEv("read_rcs", FALSE)) =>
                 /\ wdog.pc = "done" /\ wdog.result = "ReconfigurationDisallowed"
                 /\ Len(log) = 2
                 /\ ~wdog.pending /\ wdog.written = {}
           /\ wdog.result = "ReconfigurationDisallowed" =>
                 log = << WEv("read_ulk", FALSE), WEv("read_rcs", FALSE) >>
           /\ (wdog.pc = "done" /\ ~ReadAsSet /\ WdogEvents({"unlock"}) # {}) =>
                 /\ wdog.result = "UnlockFailed"
                 /\ Cardinality(WdogEvents({"unlock"})) = UNLOCK_TRIES
                 /\ WdogEvents(ConfigRegisters) = {}
                 /\ wdog.written = {}
           /\ wdog.result = "UnlockFailed" =>
                 /\ ~ReadAsSet
                 /\ Cardinality(WdogEvents({"unlock"})) = UNLOCK_TRIES

\* C38 witness: the second write of the unlock key was followed by a read of
\* CS.ULK as set, the three configuration registers were then written while
\* the watchdog was unlocked, and reconfigure has returned Ok.
C38_Witness ==
    /\ wdog.fn = "reconfigure" /\ wdog.pc = "done" /\ wdog.result = "Ok"
    /\ wdog.tries = 2
    /\ ReadAsSet
    /\ \A i \in WdogEvents(ConfigRegisters) : wdog.log[i].val
    /\ wdog.written = ConfigRegisters

\* The reads of CS.ULK made after the access at position u and before the
\* next write of the unlock key, or to the end of the log.
ReadsAfter(u) ==
    {j \in WdogEvents({"read_ulk"}) :
        j > u /\ \A v \in WdogEvents({"unlock"}) : v > u => j < v}

\* C39: after a write of the unlock key reconfigure reads CS.ULK up to
\* UNLOCK_CHECKS times while it reads clear, so a try that is given up (the
\* key is written again, or UnlockFailed is returned) has made UNLOCK_CHECKS
\* reads; and it leaves the polling loop when it reads set, so the
\* configuration is written with no pass of the polling loop after CS.ULK was
\* read as set.
C39_PollsUntilUnlocked ==
    wdog.fn = "reconfigure" =>
        /\ \A u \in WdogEvents({"unlock"}) :
              (\/ \E v \in WdogEvents({"unlock"}) : v > u
               \/ wdog.result = "UnlockFailed")
                 => Cardinality(ReadsAfter(u)) >= UNLOCK_CHECKS
        /\ WdogEvents(ConfigRegisters) # {} => WdogEvents({"pass"}) = {}

\* ------------------------------------------------------------------ claims: Pcc

\* C40: over any sequence of enable calls and guard drops of Pcc, each of the
\* gates (port C, D, E, LPUART1, CAN0) has at most one guard alive, and its
\* gate bit is set while the guard is alive.  An enable that returns Ok found
\* the register present and the gate bit clear and has set the gate bit; an
\* enable made while a guard of the gate is alive returns AlreadyEnabled and
\* leaves the register as it was; an enable that finds the present bit clear
\* returns RegisterNotPresent and leaves the register as it was; the drop of a
\* guard leaves the gate bit clear, and an enable of the same gate that comes
\* next returns Ok.
C40_OneGuardPerGate ==
    /\ \A g \in Gates :
          /\ pcc.guards[g] <= 1
          /\ pcc.guards[g] = 1 => pcc.reg[g].cgc /\ pcc.reg[g].pr
    /\ pcc.last.op = "enable" =>
          LET l == pcc.last
          IN /\ l.result = "Ok" =>
                   /\ l.before.pr /\ ~l.before.cgc /\ l.alive = 0
                   /\ l.after.cgc
                   /\ pcc.guards[l.gate] = 1
             /\ l.result = "AlreadyEnabled" => l.before.cgc /\ l.after = l.before
             /\ l.result = "RegisterNotPresent" => ~l.before.pr /\ l.after = l.before
             /\ l.alive > 0 => l.result = "AlreadyEnabled"
             /\ ~l.before.pr => l.result = "RegisterNotPresent"
             /\ l.before.pr /\ ~l.before.cgc => l.result = "Ok"
             /\ (pcc.prev.op = "drop" /\ pcc.prev.gate = l.gate) => l.result = "Ok"
    /\ pcc.last.op = "drop" =>
          /\ ~pcc.last.after.cgc
          /\ pcc.guards[pcc.last.gate] = 0

\* C40 witness: the guard of LPUART1 has been dropped and the enable that came
\* next has returned Ok and a new guard, while the guard of port D is alive.
C40_Witness ==
    /\ pcc.last.op = "enable" /\ pcc.last.gate = "lpuart1" /\ pcc.last.result = "Ok"
    /\ pcc.prev.op = "drop" /\ pcc.prev.gate = "lpuart1"
    /\ pcc.reg["lpuart1"].pcs = 6
    /\ pcc.guards["lpuart1"] = 1 /\ pcc.guards["portd"] = 1

====
